---- MODULE Spec2Model ----
(***************************************************************************)
(* S-PAL enforcer: the off-chain validation predicate                      *)
(* (SPALEnforcer.validate) and the Plutus-Data codec of the policy datum   *)
(* (datum-builders: build/parse/serialize/deserialize).                    *)
(*                                                                         *)
(* A JavaScript string is modelled as the sequence of its UTF-16 code      *)
(* units (naturals); a hex string is a string whose code units are hex     *)
(* digits.  A bigint and a Number are integers as long as they have at     *)
(* most 31 bits (see "JavaScript numbers").  A missing (undefined) string  *)
(* is the value Undefined.                                                 *)
(***************************************************************************)
EXTENDS Integers, Sequences, FiniteSets, TLC

VARIABLES
    policy,      \* the SPALPolicy the caller holds
    request,     \* the ValidationRequest the caller holds
    outcome,     \* what the last validate(policy, request) call produced
    datum,       \* the policy Data tree in hand: what buildPolicyDatum(policy)
                 \* returned, or the datum found at the script address
    parsed,      \* what the last parsePolicyDatum(datum) call produced
    cbor,        \* the datum bytes in hand: what serializeDatum(policy)
                 \* returned, or the datum found at the script address
    decoded,     \* what the last deserializeDatum(cbor) call produced
    linkageData, \* the linkage Data tree in hand: what buildIdentityLinkage
                 \* returned, or the linkage node of a datum found on chain
    linkageOut,  \* what the last parseIdentityLinkage(linkageData) call produced
    redeemer,    \* what the last buildAccessRedeemer(request) call returned
    enforcer,    \* the fields of the SPALEnforcer object
    initCalls,   \* the initLucid calls on the enforcer and where each one is
    calls,       \* concurrent validate calls: the request and result of each
    ops,         \* the calls of on-chain operations on the enforcer and
                 \* where each one is
    chain,       \* the UTxOs on the ledger, in the order a query returns them
    compiler,    \* compile.ts: cachedScript and the compileValidator calls
    yaci         \* the deploy script: the waitForYaci call

\* the arguments and results of validate and of the datum builders
codecVars == <<policy, request, outcome, datum, parsed, cbor,
               decoded, linkageData, linkageOut, redeemer>>
\* the enforcer object, the ledger, the compile cache and the deploy script
hostVars == <<enforcer, initCalls, calls, ops, chain, compiler, yaci>>

vars == <<policy, request, outcome, datum, parsed, cbor, decoded,
          linkageData, linkageOut, redeemer, enforcer, initCalls, calls, ops,
          chain, compiler, yaci>>

(***************************************************************************)
(* Bounds of the model.                                                    *)
(***************************************************************************)
\* lovelace amounts 0..MaxAmount are enumerated next to the amounts of the tests
MaxAmount == 2

(***************************************************************************)
(* JavaScript values.                                                      *)
(***************************************************************************)
\* the value of a string-typed field that was never set (undefined)
Undefined == << -1 >>

\* a call that has not been made yet, and the result of one that has
NotCalled == [called |-> FALSE]
Called(result) == [called |-> TRUE, result |-> result]

\* a normal return and a thrown Error
Returned(v) == [ok |-> TRUE, value |-> v]
Thrown(msg) == [ok |-> FALSE, error |-> msg]

\* whether a value of the model is a record, and not an integer
IsRecord(x) == Head(ToString(x)) = "["

\* a value that stands for a throw
IsThrown(x) == IF IsRecord(x) THEN "ok" \in DOMAIN x /\ ~x.ok ELSE FALSE

\* String.prototype.startsWith
StartsWith(s, prefix) ==
    /\ Len(s) >= Len(prefix)
    /\ SubSeq(s, 1, Len(prefix)) = prefix

\* truthiness of a string-typed value: undefined and "" are falsy
Truthy(s) == s # Undefined /\ Len(s) > 0

\* the value of a hex digit character, -1 for any other character
DigitValue(c) ==
    IF c >= 48 /\ c <= 57 THEN c - 48
    ELSE IF c >= 97 /\ c <= 102 THEN c - 87
    ELSE IF c >= 65 /\ c <= 70 THEN c - 55
    ELSE -1

\* the white space and line terminators that parseInt and Number skip:
\* TAB, LF, VT, FF, CR, SP, NBSP, U+1680, U+2000 to U+200A, U+2028, U+2029,
\* U+202F, U+205F, U+3000 and U+FEFF
IsWhiteSpace(c) ==
    c \in {9, 10, 11, 12, 13, 32, 160, 5760, 8232, 8233, 8239, 8287, 12288,
           65279} \cup (8192 .. 8202)

\* a string without its leading white space
RECURSIVE TrimStart(_)
TrimStart(str) ==
    IF str # << >> /\ IsWhiteSpace(str[1]) THEN TrimStart(Tail(str)) ELSE str

(***************************************************************************)
(* JavaScript numbers.  A Number is an IEEE 754 double.  In the model a    *)
(* Number whose value is an integer of at most 31 bits is that integer,    *)
(* not-a-number is NaN, and every other Number is the record [js |-> t]    *)
(* of the text t that String(x) gives for it ("0.001", "2147483648",       *)
(* "1e+21", "-Infinity").  The model does not tell -0 from 0, as String,   *)
(* BigInt and === do not.  A bigint of more than 31 bits is the record     *)
(* [big |-> t] of its decimal text.                                        *)
(*                                                                         *)
(* A double is held as [kind, neg, m, q]: kind is "nan", "zero", "inf" or  *)
(* "finite", and a finite double is m * 2^q, with m the bits of the        *)
(* significand (most significant first, the first one 1, at most 53) and   *)
(* q >= -1074.  Decimal numbers are sequences of the digits 0..9, most     *)
(* significant first, so that no value leaves the 32-bit integers of TLC.   *)
(***************************************************************************)
NaN == [nan |-> TRUE]

\* the precision of a double, its least exponent and the exponent above its
\* greatest
Precision == 53
MinExponent == 0 - 1074
MaxExponent == 1024

\* a function on 1 .. n as the sequence of its values
AsSequence(f) == << >> \o f

Zeros(n) == AsSequence([i \in 1 .. n |-> 0])
Ones(n) == AsSequence([i \in 1 .. n |-> 1])

\* how many elements at the start (the end) of s[lo .. hi] equal x
RECURSIVE LeadingRun(_, _, _, _)
LeadingRun(s, x, lo, hi) ==
    IF lo > hi THEN 0
    ELSE IF lo = hi THEN (IF s[lo] = x THEN 1 ELSE 0)
    ELSE LET mid == (lo + hi) \div 2
             left == LeadingRun(s, x, lo, mid)
         IN  IF left = mid - lo + 1
             THEN left + LeadingRun(s, x, mid + 1, hi) ELSE left

RECURSIVE TrailingRun(_, _, _, _)
TrailingRun(s, x, lo, hi) ==
    IF lo > hi THEN 0
    ELSE IF lo = hi THEN (IF s[lo] = x THEN 1 ELSE 0)
    ELSE LET mid == (lo + hi) \div 2
             right == TrailingRun(s, x, mid + 1, hi)
         IN  IF right = hi - mid
             THEN right + TrailingRun(s, x, lo, mid) ELSE right

StripLeadingZeros(s) == SubSeq(s, LeadingRun(s, 0, 1, Len(s)) + 1, Len(s))
StripTrailingZeros(s) == SubSeq(s, 1, Len(s) - TrailingRun(s, 0, 1, Len(s)))

\* half of a decimal integer, rounded down
DecimalHalf(d) ==
    AsSequence([i \in 1 .. Len(d) |->
        ((IF i = 1 THEN 0 ELSE 10 * (d[i - 1] % 2)) + d[i]) \div 2])

\* twice a decimal integer plus one bit; the integer has a leading 0 to grow
\* into
DecimalDoublePlus(d, bit) ==
    AsSequence([i \in 1 .. Len(d) |->
        ((2 * d[i]) % 10)
            + (IF i = Len(d) THEN bit ELSE IF d[i + 1] >= 5 THEN 1 ELSE 0)])

\* the fraction digits of twice a decimal fraction
FractionDouble(f) ==
    AsSequence([i \in 1 .. Len(f) |->
        ((2 * f[i]) % 10) + (IF i < Len(f) /\ f[i + 1] >= 5 THEN 1 ELSE 0)])

\* the fraction digits of half of bit.f
FractionHalf(bit, f) ==
    IF bit = 0 /\ f = << >> THEN << >>
    ELSE LET s == <<bit>> \o f \o <<0>>
         IN  AsSequence([i \in 1 .. Len(s) - 1 |->
                             (10 * (s[i] % 2) + s[i + 1]) \div 2])

\* one bit taken off the low end of a decimal integer, n times or until
\* nothing is left: the bits taken, most significant first, and the rest
RECURSIVE Halvings(_, _)
Halvings(st, n) ==
    IF n = 0 THEN st
    ELSE IF n = 1
    THEN [d |-> DecimalHalf(st.d),
          bits |-> <<st.d[Len(st.d)] % 2>> \o st.bits]
    ELSE LET mid == Halvings(st, n \div 2)
         IN  IF mid.d = Zeros(Len(mid.d)) THEN mid
             ELSE Halvings(mid, n - n \div 2)

\* the bits of a decimal integer, most significant first: 10^n is below
\* 2^(10n/3 + 1)
IntegerBits(d) ==
    IF d = << >> THEN << >>
    ELSE Halvings([d |-> d, bits |-> << >>], (10 * Len(d)) \div 3 + 1).bits

\* one bit taken off the high end of a decimal fraction, n times or until
\* nothing is left
RECURSIVE Doublings(_, _)
Doublings(st, n) ==
    IF n = 0 THEN st
    ELSE IF n = 1
    THEN [f |-> FractionDouble(st.f),
          bits |-> Append(st.bits, IF st.f[1] >= 5 THEN 1 ELSE 0)]
    ELSE LET mid == Doublings(st, n \div 2)
         IN  IF mid.f = Zeros(Len(mid.f)) THEN mid
             ELSE Doublings(mid, n - n \div 2)

\* the first n bits of a decimal fraction (without the zeros at their end
\* when the fraction has fewer), and the fraction left after them
FractionBits(f, n) ==
    IF f = << >> THEN [f |-> << >>, bits |-> << >>]
    ELSE Doublings([f |-> f, bits |-> << >>], n)

\* the next n bits pushed into the low end of a decimal integer
RECURSIVE PushBits(_, _, _)
PushBits(st, bits, n) ==
    IF n = 0 THEN st
    ELSE IF n = 1
    THEN [d |-> DecimalDoublePlus(st.d, bits[st.next]), next |-> st.next + 1]
    ELSE LET mid == PushBits(st, bits, n \div 2)
         IN  IF mid.next > Len(bits) THEN mid
             ELSE PushBits(mid, bits, n - n \div 2)

\* the decimal digits of the integer with the given bits: 2^n is below
\* 10^(n/3 + 1)
BitsToDecimal(bits) ==
    StripLeadingZeros(
        PushBits([d |-> Zeros(Len(bits) \div 3 + 1), next |-> 1], bits,
                 Len(bits)).d)

\* the n bits before bits[st.next], last first, pushed into the high end of
\* a decimal fraction
RECURSIVE PushFractionBits(_, _, _)
PushFractionBits(st, bits, n) ==
    IF n = 0 THEN st
    ELSE IF n = 1
    THEN [f |-> FractionHalf(bits[st.next], st.f), next |-> st.next - 1]
    ELSE LET mid == PushFractionBits(st, bits, n \div 2)
         IN  IF mid.next < 1 THEN mid
             ELSE PushFractionBits(mid, bits, n - n \div 2)

\* the decimal digits of the fraction with the given bits after the point
FractionBitsToDecimal(bits) ==
    PushFractionBits([f |-> << >>, next |-> Len(bits)], bits, Len(bits)).f

\* bits plus one and bits minus one, as bits of the same length (plus one
\* has one bit more when all bits are 1)
BitsIncrement(bits) ==
    LET t == TrailingRun(bits, 1, 1, Len(bits))
    IN  IF t = Len(bits) THEN <<1>> \o Zeros(t)
        ELSE SubSeq(bits, 1, Len(bits) - t - 1) \o <<1>> \o Zeros(t)

BitsDecrement(bits) ==
    LET t == TrailingRun(bits, 0, 1, Len(bits))
    IN  SubSeq(bits, 1, Len(bits) - t - 1) \o <<0>> \o Ones(t)

Zero == [kind |-> "zero"]
Infinite(neg) == [kind |-> "inf", neg |-> neg]
Finite(neg, m, q) == [kind |-> "finite", neg |-> neg, m |-> m, q |-> q]

\* the exponent of the last bit of a double whose first bit has the exponent
\* top
LastExponent(top) ==
    IF top - (Precision - 1) > MinExponent THEN top - (Precision - 1)
    ELSE MinExponent

\* bits[lo .. hi], with zeros for the bits after the end of bits
BitsBetween(bits, lo, hi) ==
    IF hi <= Len(bits) THEN SubSeq(bits, lo, hi)
    ELSE SubSeq(bits, lo, Len(bits)) \o Zeros(hi - Len(bits))

\* whether the bits after bits[last] round the bits z + 1 .. last up: they
\* are more than half of the last bit, or half of it and the last bit is odd
RoundsUp(bits, z, last, rest) ==
    /\ last + 1 >= 1 /\ last + 1 <= Len(bits) /\ bits[last + 1] = 1
    /\ \/ rest
       \/ \E i \in last + 2 .. Len(bits) : bits[i] = 1
       \/ last > z /\ bits[last] = 1

Significand(kept, up) == IF up THEN BitsIncrement(kept) ELSE kept

\* the double of a rounded significand, which is one bit too long when the
\* rounding carried into a new bit
Rounded(neg, m, q) ==
    IF m = << >> THEN Zero
    ELSE IF Len(m) > Precision
    THEN (IF Precision + q + 1 > MaxExponent THEN Infinite(neg)
          ELSE Finite(neg, SubSeq(m, 1, Precision), q + 1))
    ELSE IF Len(m) + q > MaxExponent THEN Infinite(neg)
    ELSE Finite(neg, m, q)

\* the double of bits whose first z are 0, with the last bit at exponent q
RoundAt(neg, bits, point, rest, z, q) ==
    IF z = Len(bits) THEN Zero
    ELSE Rounded(neg,
                 Significand(BitsBetween(bits, z + 1, point - q),
                             RoundsUp(bits, z, point - q, rest)),
                 q)

RoundFrom(neg, bits, point, rest, z) ==
    RoundAt(neg, bits, point, rest, z, LastExponent(point - z - 1))

\* the double nearest to a binary expansion, ties to the even significand.
\* bits[i] has the weight 2^(point - i), and rest tells whether the value
\* has more after the bits given
RoundToDouble(neg, bits, point, rest) ==
    RoundFrom(neg, bits, point, rest, LeadingRun(bits, 0, 1, Len(bits)))

\* the double nearest to the number with the bits high before the point and
\* the bits low.bits after it, low.f telling what is left after them
RoundBits(neg, high, low) ==
    RoundToDouble(neg, high \o low.bits, Len(high),
                  \E i \in 1 .. Len(low.f) : low.f[i] # 0)

\* the double nearest to digits * 10^exponent; digits has no zero at either
\* end and is not empty
DecimalToDouble(neg, digits, exponent) ==
    LET top == Len(digits) + exponent
        int == IF exponent >= 0 THEN digits \o Zeros(exponent)
               ELSE IF top <= 0 THEN << >>
               ELSE SubSeq(digits, 1, top)
        frac == IF exponent >= 0 THEN << >>
                ELSE IF top <= 0 THEN Zeros(0 - top) \o digits
                ELSE SubSeq(digits, top + 1, Len(digits))
        need == IF top > 0 THEN Precision + 1
                ELSE (10 * (1 - top)) \div 3 + 1 + Precision + 1
        n == IF need > 1 - MinExponent THEN 1 - MinExponent ELSE need
    IN  IF top > 309 THEN Infinite(neg)
        ELSE IF top < 0 - 323 THEN Zero
        ELSE RoundBits(neg, IntegerBits(int), FractionBits(frac, n))

\* the exact decimal expansion of bits * 2^q: the digits before and after
\* the point, without a zero at the outer ends
ExactDecimal(bits, q) ==
    [int |-> BitsToDecimal(IF q >= 0 THEN bits \o Zeros(q)
                           ELSE SubSeq(bits, 1, Len(bits) + q)),
     frac |-> IF q >= 0 THEN << >>
              ELSE FractionBitsToDecimal(
                       IF Len(bits) + q >= 0
                       THEN SubSeq(bits, Len(bits) + q + 1, Len(bits))
                       ELSE Zeros(0 - (Len(bits) + q)) \o bits)]

\* a positive decimal as 0.s * 10^k, s without a zero at either end
Scientific(dec) ==
    IF dec.int # << >>
    THEN [s |-> StripTrailingZeros(dec.int \o dec.frac), k |-> Len(dec.int)]
    ELSE LET z == LeadingRun(dec.frac, 0, 1, Len(dec.frac))
         IN  [s |-> SubSeq(dec.frac, z + 1, Len(dec.frac)), k |-> 0 - z]

\* whether a and b differ at a place both have
Differ(a, b, i) == i <= Len(a) /\ i <= Len(b) /\ a[i] # b[i]

\* a < b for two sequences of digits that differ first at the place i
LessAt(a, b, i) == a[i] < b[i]

\* a < b for two decimals in that form, one of them of few digits
DecimalLess(a, b) ==
    IF a.k # b.k THEN a.k < b.k
    ELSE IF \E i \in 1 .. Len(a.s) : Differ(a.s, b.s, i)
    THEN LessAt(a.s, b.s,
                CHOOSE i \in 1 .. Len(a.s) :
                    Differ(a.s, b.s, i)
                        /\ \A j \in 1 .. i - 1 : ~Differ(a.s, b.s, j))
    ELSE Len(a.s) < Len(b.s)

\* whether the decimal c lies between lo and hi, the two ends counting when
\* closed
Inside(c, lo, hi, closed) ==
    /\ DecimalLess(lo, c) \/ (closed /\ lo = c)
    /\ DecimalLess(c, hi) \/ (closed /\ hi = c)

\* the first n digits of v, and the next decimal of n digits above them
RoundedDown(v, n) == [s |-> StripTrailingZeros(SubSeq(v.s, 1, n)), k |-> v.k]

UpFrom(v, n, nines) ==
    IF nines = n THEN [s |-> <<1>>, k |-> v.k + 1]
    ELSE [s |-> SubSeq(v.s, 1, n - nines - 1) \o <<v.s[n - nines] + 1>>,
          k |-> v.k]

RoundedUp(v, n) == UpFrom(v, n, TrailingRun(v.s, 9, 1, n))

\* whether v is nearer to the decimal above its first n digits than to
\* these, the even one of the two counting as nearer at the middle
UpNearer(v, n) ==
    \/ v.s[n + 1] > 5
    \/ v.s[n + 1] = 5 /\ Len(v.s) > n + 1
    \/ v.s[n + 1] = 5 /\ Len(v.s) = n + 1 /\ v.s[n] % 2 = 1

\* the shortest decimal that converts back to the double m * 2^q and, of
\* those, the one nearest to it (Number::toString, steps 5 and 6)
RECURSIVE ShortestFrom(_, _, _, _, _)
RECURSIVE ShortestOf(_, _, _, _, _, _, _, _, _)
ShortestOf(n, v, lo, hi, closed, down, up, downInside, upInside) ==
    IF downInside /\ upInside THEN (IF UpNearer(v, n) THEN up ELSE down)
    ELSE IF downInside THEN down
    ELSE IF upInside THEN up
    ELSE ShortestFrom(n + 1, v, lo, hi, closed)

RECURSIVE ShortestBetween(_, _, _, _, _, _, _)
ShortestBetween(n, v, lo, hi, closed, down, up) ==
    ShortestOf(n, v, lo, hi, closed, down, up, Inside(down, lo, hi, closed),
               Inside(up, lo, hi, closed))

ShortestFrom(n, v, lo, hi, closed) ==
    IF n >= Len(v.s) THEN v
    ELSE ShortestBetween(n, v, lo, hi, closed, RoundedDown(v, n),
                         RoundedUp(v, n))

\* whether the double below m * 2^q is nearer to it than the one above
IsNarrow(m, q) ==
    Len(m) = Precision /\ m = <<1>> \o Zeros(Precision - 1) /\ q > MinExponent

ShortestDecimal(m, q) ==
    ShortestFrom(1, Scientific(ExactDecimal(m, q)),
                 Scientific(ExactDecimal(
                     IF IsNarrow(m, q) THEN Ones(Precision - 1) \o <<1, 1>>
                     ELSE BitsDecrement(m) \o <<1>>,
                     IF IsNarrow(m, q) THEN q - 2 ELSE q - 1)),
                 Scientific(ExactDecimal(m \o <<1>>, q - 1)),
                 m[Len(m)] = 0)

\* the text of a sequence of digits
RECURSIVE DigitsText(_)
DigitsText(d) ==
    IF d = << >> THEN ""
    ELSE IF Len(d) = 1 THEN ToString(d[1])
    ELSE DigitsText(SubSeq(d, 1, Len(d) \div 2))
             \o DigitsText(SubSeq(d, Len(d) \div 2 + 1, Len(d)))

RECURSIVE ZerosText(_)
ZerosText(n) == IF n = 0 THEN "" ELSE "0" \o ZerosText(n - 1)

\* Number::toString of the positive number 0.s * 10^k
DecimalText(s, k) ==
    LET n == Len(s)
    IN  IF n <= k /\ k <= 21 THEN DigitsText(s) \o ZerosText(k - n)
        ELSE IF 0 < k /\ k <= 21
        THEN DigitsText(SubSeq(s, 1, k)) \o "." \o DigitsText(SubSeq(s, k + 1, n))
        ELSE IF 0 - 6 < k /\ k <= 0
        THEN "0." \o ZerosText(0 - k) \o DigitsText(s)
        ELSE (IF n = 1 THEN DigitsText(s)
              ELSE ToString(s[1]) \o "." \o DigitsText(Tail(s)))
                 \o (IF k - 1 < 0 THEN "e-" \o ToString(1 - k)
                     ELSE "e+" \o ToString(k - 1))

\* the value of at most ten digits
RECURSIVE SmallValue(_, _)
SmallValue(d, acc) ==
    IF d = << >> THEN acc ELSE SmallValue(Tail(d), 10 * acc + d[1])

\* whether a decimal integer is below 2^31
MaxSmall == <<2, 1, 4, 7, 4, 8, 3, 6, 4, 7>>
IsSmall(d) ==
    \/ Len(d) < Len(MaxSmall)
    \/ /\ Len(d) = Len(MaxSmall)
       /\ ~DecimalLess([s |-> MaxSmall, k |-> 0], [s |-> d, k |-> 0])

\* the integer with the given sign and at most ten digits
SignedValue(neg, d) == IF neg THEN 0 - SmallValue(d, 0) ELSE SmallValue(d, 0)

\* Number::toString of the positive number v
ScientificText(v) == DecimalText(v.s, v.k)

\* the Number of the model for a finite double and its decimal expansion
FiniteNumber(x, dec) ==
    IF dec.frac = << >> /\ IsSmall(dec.int) THEN SignedValue(x.neg, dec.int)
    ELSE [js |-> (IF x.neg THEN "-" ELSE "")
                     \o ScientificText(ShortestDecimal(x.m, x.q))]

\* the Number of the model for a double
NumberOf(x) ==
    IF x.kind = "nan" THEN NaN
    ELSE IF x.kind = "zero" THEN 0
    ELSE IF x.kind = "inf"
    THEN [js |-> IF x.neg THEN "-Infinity" ELSE "Infinity"]
    ELSE FiniteNumber(x, ExactDecimal(x.m, x.q))

\* a string without its trailing white space
RECURSIVE TrimEnd(_)
TrimEnd(str) ==
    IF str # << >> /\ IsWhiteSpace(str[Len(str)])
    THEN TrimEnd(SubSeq(str, 1, Len(str) - 1)) ELSE str

\* DecimalDigits: one or more of 0..9
IsDecimalDigits(str) ==
    str # << >> /\ \A i \in 1 .. Len(str) : str[i] >= 48 /\ str[i] <= 57

DigitsOf(str) == AsSequence([i \in 1 .. Len(str) |-> str[i] - 48])

\* "Infinity"
InfinityLiteral == <<73, 110, 102, 105, 110, 105, 116, 121>>

\* the place of the first element of str that is in chars, or the place
\* after str
FirstOf(str, chars) ==
    IF \E i \in 1 .. Len(str) : str[i] \in chars
    THEN CHOOSE i \in 1 .. Len(str) :
             str[i] \in chars /\ \A j \in 1 .. i - 1 : str[j] \notin chars
    ELSE Len(str) + 1

\* the parts of a mantissa with its point at the place dot
MantissaParts(mantissa, dot, hasExponent, exponent) ==
    [int |-> SubSeq(mantissa, 1, dot - 1),
     point |-> dot <= Len(mantissa),
     frac |-> SubSeq(mantissa, dot + 1, Len(mantissa)),
     hasExponent |-> hasExponent,
     exponent |-> exponent]

SplitMantissa(mantissa, hasExponent, exponent) ==
    MantissaParts(mantissa, FirstOf(mantissa, {46}), hasExponent, exponent)

SplitLiteral(body, cut) ==
    SplitMantissa(SubSeq(body, 1, cut - 1), cut <= Len(body),
                  SubSeq(body, cut + 1, Len(body)))

\* the parts of a StrUnsignedDecimalLiteral other than Infinity: the digits
\* before and after the point and the ExponentPart after "e" or "E"
DecimalParts(body) == SplitLiteral(body, FirstOf(body, {69, 101}))

\* the digits of an ExponentPart: after an optional sign
ExponentDigits(str) ==
    IF str # << >> /\ str[1] \in {43, 45} THEN Tail(str) ELSE str

\* whether the parts are those of DecimalDigits . DecimalDigits(opt)
\* ExponentPart(opt), . DecimalDigits ExponentPart(opt), or DecimalDigits
\* ExponentPart(opt)
IsDecimalLiteral(p) ==
    /\ \A i \in 1 .. Len(p.int) : p.int[i] >= 48 /\ p.int[i] <= 57
    /\ \A i \in 1 .. Len(p.frac) : p.frac[i] >= 48 /\ p.frac[i] <= 57
    /\ p.int # << >> \/ p.frac # << >>
    /\ p.hasExponent => IsDecimalDigits(ExponentDigits(p.exponent))

\* the value of the digits of an exponent, cut off where every double is 0
\* or infinite
ExponentLimit == 100000000
ExponentSize(d) == IF Len(d) > 8 THEN ExponentLimit ELSE SmallValue(d, 0)

\* the value of an ExponentPart
ExponentValue(str) ==
    IF str # << >> /\ str[1] = 45
    THEN 0 - ExponentSize(StripLeadingZeros(DigitsOf(Tail(str))))
    ELSE ExponentSize(StripLeadingZeros(DigitsOf(ExponentDigits(str))))

\* the double of digits * 10^exponent, of whose digits the first lead and
\* the last trail are zeros
TrimmedToDouble(neg, all, exponent, lead, trail) ==
    IF lead = Len(all) THEN Zero
    ELSE DecimalToDouble(neg, SubSeq(all, lead + 1, Len(all) - trail),
                         exponent + trail)

DigitsToDouble(neg, all, exponent) ==
    TrimmedToDouble(neg, all, exponent, LeadingRun(all, 0, 1, Len(all)),
                    TrailingRun(all, 0, 1, Len(all)))

\* the double of a StrDecimalLiteral without its sign, from its parts
DecimalLiteralToDouble(neg, p) ==
    DigitsToDouble(neg, DigitsOf(p.int \o p.frac),
                   (IF p.hasExponent THEN ExponentValue(p.exponent) ELSE 0)
                       - Len(p.frac))

\* a literal with the prefix "0" and one of the two letters, all of whose
\* other characters are digits below the radix
IsPrefixed(str, letters, radix) ==
    /\ Len(str) >= 3
    /\ str[1] = 48
    /\ str[2] \in letters
    /\ \A i \in 3 .. Len(str) :
           DigitValue(str[i]) >= 0 /\ DigitValue(str[i]) < radix

\* the bits of the digits of a binary, octal or hexadecimal literal
RadixBits(str, width) ==
    AsSequence([i \in 1 .. width * Len(str) |->
        LET digit == DigitValue(str[(i - 1) \div width + 1])
            place == (width - 1) - ((i - 1) % width)
        IN  (digit \div (IF place = 3 THEN 8 ELSE IF place = 2 THEN 4
                         ELSE IF place = 1 THEN 2 ELSE 1)) % 2])

\* the double of a binary, octal or hexadecimal literal from its digits
RadixLiteralToDouble(digits, width) ==
    RoundToDouble(FALSE, RadixBits(digits, width), width * Len(digits), FALSE)

\* the double of the parts of a literal, not-a-number when they are not
\* those of a decimal literal
PartsToDouble(neg, p) ==
    IF IsDecimalLiteral(p) THEN DecimalLiteralToDouble(neg, p)
    ELSE [kind |-> "nan"]

\* the double of a literal without its sign
UnsignedToDouble(neg, body) ==
    IF body = InfinityLiteral THEN Infinite(neg)
    ELSE PartsToDouble(neg, DecimalParts(body))

\* the double of a StringNumericLiteral without white space around it: ""
\* is 0, then come the binary, octal and hexadecimal literals ("0b", "0o",
\* "0x" in either case, unsigned) and the decimal literal with an optional
\* sign; any other string is not-a-number
LiteralToDouble(lit) ==
    IF lit = << >> THEN Zero
    ELSE IF \/ IsPrefixed(lit, {66, 98}, 2)
            \/ IsPrefixed(lit, {79, 111}, 8)
            \/ IsPrefixed(lit, {88, 120}, 16)
    THEN RadixLiteralToDouble(SubSeq(lit, 3, Len(lit)),
                              IF lit[2] \in {66, 98} THEN 1
                              ELSE IF lit[2] \in {79, 111} THEN 3 ELSE 4)
    ELSE UnsignedToDouble(lit[1] = 45,
                          IF lit[1] \in {43, 45} THEN Tail(lit) ELSE lit)

\* StringToNumber as a double: the white space around the literal is
\* dropped
StringToDouble(str) == LiteralToDouble(TrimEnd(TrimStart(str)))

\* Number(str)
StringToNumber(str) == NumberOf(StringToDouble(str))
\* whether a Number is not-a-number
IsNaN(x) == ToString(x) = ToString(NaN)

\* String(x) of a Number
NumberText(x) ==
    IF IsNaN(x) THEN "NaN" ELSE IF IsRecord(x) THEN x.js ELSE ToString(x)

\* the code unit of a character of such a text
CodeUnit(ch) ==
    CASE ch = "0" -> 48 [] ch = "1" -> 49 [] ch = "2" -> 50 [] ch = "3" -> 51
      [] ch = "4" -> 52 [] ch = "5" -> 53 [] ch = "6" -> 54 [] ch = "7" -> 55
      [] ch = "8" -> 56 [] ch = "9" -> 57 [] ch = "+" -> 43 [] ch = "-" -> 45
      [] ch = "." -> 46 [] ch = "e" -> 101 [] ch = "I" -> 73 [] ch = "n" -> 110
      [] ch = "f" -> 102 [] ch = "i" -> 105 [] ch = "t" -> 116
      [] ch = "y" -> 121 [] ch = "N" -> 78 [] ch = "a" -> 97
      [] OTHER -> 0

\* the code units of a text
RECURSIVE TextUnits(_)
TextUnits(t) ==
    IF Len(t) = 0 THEN << >>
    ELSE IF Len(t) = 1 THEN <<CodeUnit(t)>>
    ELSE TextUnits(SubSeq(t, 1, Len(t) \div 2))
             \o TextUnits(SubSeq(t, Len(t) \div 2 + 1, Len(t)))

\* the double of a Number of the model
NumberToDouble(x) == StringToDouble(TextUnits(NumberText(x)))

\* the bigint with the given sign and decimal digits without leading zeros
BigIntOfDigits(neg, d) ==
    IF IsSmall(d) THEN SignedValue(neg, d)
    ELSE [big |-> (IF neg THEN "-" ELSE "") \o DigitsText(d)]

\* the bigint with the given sign and decimal digits
BigIntOf(neg, digits) == BigIntOfDigits(neg, StripLeadingZeros(digits))

\* String(n) of a bigint, its sign and the decimal digits of its magnitude
BigIntText(n) == IF IsRecord(n) THEN n.big ELSE ToString(n)

TextParts(text) ==
    [neg |-> text # << >> /\ text[1] = 45,
     digits |-> StripLeadingZeros(DigitsOf(
                    IF text # << >> /\ text[1] = 45 THEN Tail(text)
                    ELSE text))]

BigIntParts(n) == TextParts(TextUnits(BigIntText(n)))

\* c < d for the decimal digits of two magnitudes
Below(c, d) ==
    \/ Len(c) < Len(d)
    \/ Len(c) = Len(d) /\ DecimalLess([s |-> c, k |-> 0], [s |-> d, k |-> 0])

PartsLess(x, y) ==
    IF x.neg # y.neg THEN x.neg
    ELSE IF x.neg THEN Below(y.digits, x.digits)
    ELSE Below(x.digits, y.digits)

\* a < b for two bigints
BigIntLess(a, b) ==
    IF ~IsRecord(a) /\ ~IsRecord(b) THEN a < b
    ELSE PartsLess(BigIntParts(a), BigIntParts(b))

\* BigInt(x) of a Number: the bigint of an integer, a RangeError for any
\* other number
BigIntError(x) ==
    "RangeError: The number " \o NumberText(x)
        \o " cannot be converted to a BigInt because it is not an integer"

\* the bigint of a number with the given decimal expansion
ExactToBigInt(x, neg, dec) ==
    IF dec.frac # << >> THEN Thrown(BigIntError(x))
    ELSE BigIntOf(neg, dec.int)

DoubleToBigInt(x, dbl) ==
    IF dbl.kind = "zero" THEN 0
    ELSE IF dbl.kind # "finite" THEN Thrown(BigIntError(x))
    ELSE ExactToBigInt(x, dbl.neg, ExactDecimal(dbl.m, dbl.q))

BigInt(x) == IF ~IsRecord(x) THEN x ELSE DoubleToBigInt(x, NumberToDouble(x))


(***************************************************************************)
(* String literals of the program and of its tests, as code units.         *)
(***************************************************************************)
\* "did:key:z"
EphemeralPrefix == <<100, 105, 100, 58, 107, 101, 121, 58, 122>>
\* ""
EmptyString == << >>
\* "ab" and "cd": policy ids
IdA == <<97, 98>>
IdB == <<99, 100>>
\* "abcd1234" and "00ff": owner key hashes (hex)
PkhA == <<97, 98, 99, 100, 49, 50, 51, 52>>
PkhB == <<48, 48, 102, 102>>
\* "deadbeef" and "abcd": required proof hashes (hex)
HashA == <<100, 101, 97, 100, 98, 101, 101, 102>>
HashB == <<97, 98, 99, 100>>
\* "a/b"; U+00E9 "." "x" (a two-byte character first); U+FEFF "a" (a leading
\* byte-order mark); "a" U+FEFF (the same character, not leading); U+1F600
\* (a surrogate pair, four bytes in UTF-8)
ScopeAscii == <<97, 47, 98>>
ScopeLatin == <<233, 46, 120>>
ScopeBomFirst == <<65279, 97>>
ScopeBomLast == <<97, 65279>>
ScopeAstral == <<55357, 56832>>
\* "did:key:z6Mk", "did:web:ex", "did:key:", "xdid:key:z6", "did:key:Z6"
DidKey == EphemeralPrefix \o <<54, 77, 107>>
DidWeb == <<100, 105, 100, 58, 119, 101, 98, 58, 101, 120>>
DidShort == <<100, 105, 100, 58, 107, 101, 121, 58>>
DidInner == <<120>> \o EphemeralPrefix \o <<54>>
DidUpper == <<100, 105, 100, 58, 107, 101, 121, 58, 90, 54>>
\* "ref" and "beef": proof references
RefA == <<114, 101, 102>>
RefB == <<98, 101, 101, 102>>

(***************************************************************************)
(* SPALEnforcer.validate                                                   *)
(***************************************************************************)
EphemeralError == "Ephemeral DID (did:key) required for this policy"
ProofError == "Proof reference required but not provided"
PaymentError(required, got) ==
    "Insufficient payment: required " \o BigIntText(required)
        \o ", got " \o BigIntText(got)

\* the result of one check that found nothing wrong
Pass == [pass |-> TRUE]
Reject(reason) == Returned([valid |-> FALSE, error |-> reason])

\* String.prototype.includes
RECURSIVE Includes(_, _)
Includes(s, part) ==
    \/ StartsWith(s, part)
    \/ (s # << >> /\ Includes(Tail(s), part))

\* the identity check with includes() in the place of startsWith()
CheckIdentityIncludes(p, r) ==
    IF ~p.identityLinkage.ephemeralRequired THEN Pass
    ELSE IF r.requesterDid = Undefined THEN Thrown("TypeError")
    ELSE IF ~Includes(r.requesterDid, EphemeralPrefix)
    THEN Reject(EphemeralError)
    ELSE Pass

\* the identity check with the prefix "did:key:" (the last character lost)
CheckIdentityShortPrefix(p, r) ==
    IF ~p.identityLinkage.ephemeralRequired THEN Pass
    ELSE IF r.requesterDid = Undefined THEN Thrown("TypeError")
    ELSE IF ~StartsWith(r.requesterDid, SubSeq(EphemeralPrefix, 1, 8))
    THEN Reject(EphemeralError)
    ELSE Pass

\* 1. Check identity linkage requirements.  startsWith is called on the
\* DID, so a request without one makes the call throw a TypeError
CheckIdentity(p, r) ==
    IF ~p.identityLinkage.ephemeralRequired THEN Pass
    ELSE IF r.requesterDid = Undefined THEN Thrown("TypeError")
    ELSE IF ~StartsWith(r.requesterDid, EphemeralPrefix)
    THEN Reject(EphemeralError)
    ELSE Pass

\* the payment check with <= in the place of <
CheckPaymentStrict(p, r) ==
    IF /\ BigIntLess(0, p.minPayment)
       /\ ~BigIntLess(p.minPayment, r.paymentAmount)
    THEN Reject(PaymentError(p.minPayment, r.paymentAmount))
    ELSE Pass

\* the payment check throwing its error instead of returning it
CheckPaymentThrows(p, r) ==
    IF /\ BigIntLess(0, p.minPayment)
       /\ BigIntLess(r.paymentAmount, p.minPayment)
    THEN Thrown(PaymentError(p.minPayment, r.paymentAmount))
    ELSE Pass

\* 2. Check payment if required
CheckPayment(p, r) ==
    IF /\ BigIntLess(0, p.minPayment)
       /\ BigIntLess(r.paymentAmount, p.minPayment)
    THEN Reject(PaymentError(p.minPayment, r.paymentAmount))
    ELSE Pass

\* the proof check testing the reference for undefined only
CheckProofUndefinedOnly(p, r) ==
    IF Truthy(p.requiredProofHash) /\ r.proofReference = Undefined
    THEN Reject(ProofError)
    ELSE Pass

\* 3. Check proof requirement
CheckProof(p, r) ==
    IF Truthy(p.requiredProofHash) /\ ~Truthy(r.proofReference)
    THEN Reject(ProofError)
    ELSE Pass

\* validate with the payment check moved in front of the identity check
validatePaymentFirst(p, r) ==
    IF CheckPayment(p, r) # Pass THEN CheckPayment(p, r)
    ELSE IF CheckIdentity(p, r) # Pass THEN CheckIdentity(p, r)
    ELSE IF CheckProof(p, r) # Pass THEN CheckProof(p, r)
    ELSE Returned([valid |-> TRUE])

\* validate with the retention check of the on-chain script added
validateWithRetention(p, r) ==
    IF CheckIdentity(p, r) # Pass THEN CheckIdentity(p, r)
    ELSE IF r.accessTime > p.maxRetentionMs
    THEN Reject("Retention window exceeded")
    ELSE IF CheckPayment(p, r) # Pass THEN CheckPayment(p, r)
    ELSE IF CheckProof(p, r) # Pass THEN CheckProof(p, r)
    ELSE Returned([valid |-> TRUE])

\* validate keeping its result in a field shared by the calls on the
\* enforcer: a call that finds a result there returns it
validateSharedResult(p, r) ==
    IF \E j \in DOMAIN calls : calls[j].result.called
    THEN calls[CHOOSE j \in DOMAIN calls : calls[j].result.called].result.result
    ELSE IF CheckIdentity(p, r) # Pass THEN CheckIdentity(p, r)
    ELSE IF CheckPayment(p, r) # Pass THEN CheckPayment(p, r)
    ELSE IF CheckProof(p, r) # Pass THEN CheckProof(p, r)
    ELSE Returned([valid |-> TRUE])

\* validate(policy, request): what the promise it returns settles to
validate(p, r) ==
    IF CheckIdentity(p, r) # Pass THEN CheckIdentity(p, r)
    ELSE IF CheckPayment(p, r) # Pass THEN CheckPayment(p, r)
    ELSE IF CheckProof(p, r) # Pass THEN CheckProof(p, r)
    ELSE Returned([valid |-> TRUE])

(***************************************************************************)
(* Text and hex conversions (datum-builders).                              *)
(***************************************************************************)
IsHighSurrogate(c) == c >= 55296 /\ c <= 56319
IsLowSurrogate(c) == c >= 56320 /\ c <= 57343

\* the UTF-8 bytes of one code point
Utf8Bytes(cp) ==
    IF cp < 128 THEN <<cp>>
    ELSE IF cp < 2048 THEN <<192 + (cp \div 64), 128 + (cp % 64)>>
    ELSE IF cp < 65536
    THEN <<224 + (cp \div 4096), 128 + ((cp \div 64) % 64), 128 + (cp % 64)>>
    ELSE <<240 + (cp \div 262144), 128 + ((cp \div 4096) % 64),
           128 + ((cp \div 64) % 64), 128 + (cp % 64)>>

\* encoder.encode(str): a surrogate pair is one code point, a lone surrogate
\* becomes U+FFFD
RECURSIVE TextEncode(_)
TextEncode(str) ==
    IF str = << >> THEN << >>
    ELSE IF /\ IsHighSurrogate(str[1])
            /\ Len(str) >= 2
            /\ IsLowSurrogate(str[2])
    THEN Utf8Bytes(65536 + (str[1] - 55296) * 1024 + (str[2] - 56320))
             \o TextEncode(SubSeq(str, 3, Len(str)))
    ELSE IF IsHighSurrogate(str[1]) \/ IsLowSurrogate(str[1])
    THEN <<239, 191, 189>> \o TextEncode(Tail(str))
    ELSE Utf8Bytes(str[1]) \o TextEncode(Tail(str))

\* b.toString(16): one hex digit, lowercase
HexDigit(d) == IF d < 10 THEN 48 + d ELSE 87 + d

\* bytes.map((b) => b.toString(16).padStart(2, "0")).join("")
RECURSIVE BytesToHex(_)
BytesToHex(bytes) ==
    IF bytes = << >> THEN << >>
    ELSE <<HexDigit(bytes[1] \div 16), HexDigit(bytes[1] % 16)>>
             \o BytesToHex(Tail(bytes))

\* encoder.encode(undefined) is encoder.encode(): no bytes
stringToHex(str) ==
    BytesToHex(TextEncode(IF str = Undefined THEN EmptyString ELSE str))

\* the characters the dot of a regular expression does not match
IsLineTerminator(c) == c \in {10, 13, 8232, 8233}

\* the digits of a chunk after its white space and sign: parseInt reads the
\* leading hex digits and gives NaN when there is none
RECURSIVE ParseDigits(_, _)
ParseDigits(chunk, acc) ==
    IF chunk = << >> \/ DigitValue(chunk[1]) < 0 THEN acc
    ELSE ParseDigits(Tail(chunk), 16 * acc + DigitValue(chunk[1]))

\* new Uint8Array([parseInt(chunk, 16)])[0] for a chunk of one or two
\* characters: NaN is stored as 0, a negative number modulo 256
ChunkByte(chunk) ==
    LET body == TrimStart(chunk)
        neg == body # << >> /\ body[1] = 45
        signless == IF body # << >> /\ body[1] \in {43, 45}
                    THEN Tail(body) ELSE body
        digits == IF /\ Len(signless) >= 2
                     /\ signless[1] = 48
                     /\ signless[2] \in {88, 120}
                  THEN SubSeq(signless, 3, Len(signless)) ELSE signless
        n == ParseDigits(digits, 0)
    IN  IF neg THEN (256 - n) % 256 ELSE n

\* hex.match(/.{1,2}/g)?.map((byte) => parseInt(byte, 16)) || []: the
\* matches are chunks of two characters (one before a line terminator or
\* the end), and the line terminators are in no match
RECURSIVE HexToBytes(_)
HexToBytes(hex) ==
    IF hex = << >> THEN << >>
    ELSE IF IsLineTerminator(hex[1]) THEN HexToBytes(Tail(hex))
    ELSE IF Len(hex) = 1 \/ IsLineTerminator(hex[2])
    THEN <<ChunkByte(<<hex[1]>>)>> \o HexToBytes(Tail(hex))
    ELSE <<ChunkByte(SubSeq(hex, 1, 2))>>
             \o HexToBytes(SubSeq(hex, 3, Len(hex)))

\* the UTF-8 decoder of new TextDecoder(): not fatal, so a malformed
\* sequence decodes to U+FFFD; the result is a sequence of code points
RECURSIVE Utf8Decode(_, _, _, _, _, _)
Utf8Decode(bytes, i, cp, need, lo, hi) ==
    IF i > Len(bytes) THEN (IF need # 0 THEN <<65533>> ELSE << >>)
    ELSE LET b == bytes[i] IN
        IF need = 0
        THEN IF b <= 127
             THEN <<b>> \o Utf8Decode(bytes, i + 1, 0, 0, 128, 191)
             ELSE IF b >= 194 /\ b <= 223
             THEN Utf8Decode(bytes, i + 1, b - 192, 1, 128, 191)
             ELSE IF b >= 224 /\ b <= 239
             THEN Utf8Decode(bytes, i + 1, b - 224, 2,
                             IF b = 224 THEN 160 ELSE 128,
                             IF b = 237 THEN 159 ELSE 191)
             ELSE IF b >= 240 /\ b <= 244
             THEN Utf8Decode(bytes, i + 1, b - 240, 3,
                             IF b = 240 THEN 144 ELSE 128,
                             IF b = 244 THEN 143 ELSE 191)
             ELSE <<65533>> \o Utf8Decode(bytes, i + 1, 0, 0, 128, 191)
        ELSE IF b < lo \/ b > hi
        THEN <<65533>> \o Utf8Decode(bytes, i, 0, 0, 128, 191)
        ELSE IF need = 1
        THEN <<cp * 64 + (b - 128)>>
                 \o Utf8Decode(bytes, i + 1, 0, 0, 128, 191)
        ELSE Utf8Decode(bytes, i + 1, cp * 64 + (b - 128), need - 1, 128, 191)

\* code points to UTF-16 code units
RECURSIVE ToCodeUnits(_)
ToCodeUnits(cps) ==
    IF cps = << >> THEN << >>
    ELSE IF cps[1] < 65536 THEN <<cps[1]>> \o ToCodeUnits(Tail(cps))
    ELSE <<55296 + ((cps[1] - 65536) \div 1024),
           56320 + ((cps[1] - 65536) % 1024)>> \o ToCodeUnits(Tail(cps))

\* new TextDecoder().decode(bytes): ignoreBOM is false, so a leading U+FEFF
\* is dropped from the result
TextDecode(bytes) ==
    LET cps == Utf8Decode(bytes, 1, 0, 0, 128, 191)
    IN  ToCodeUnits(IF cps # << >> /\ cps[1] = 65279 THEN Tail(cps) ELSE cps)

hexToString(hex) == TextDecode(HexToBytes(hex))

(***************************************************************************)
(* Plutus Data: a node is a bigint, a byte string held as a hex string, or *)
(* a Constr with an index and an ordered list of fields.                   *)
(***************************************************************************)
IntData(n) == [t |-> "int", n |-> n]
BytesData(hex) == [t |-> "bytes", hex |-> hex]
Constr(index, fields) == [t |-> "constr", index |-> index, fields |-> fields]

\* the JavaScript value a node stands for (what a cast "fields[i] as T" reads)
NodeValue(node) ==
    IF node.t = "int" THEN node.n
    ELSE IF node.t = "bytes" THEN node.hex
    ELSE node

\* boolToData with the two constructors exchanged
boolToDataSwapped(b) == Constr(IF b THEN 0 ELSE 1, << >>)

\* boolToData: False = Constr(0, []), True = Constr(1, [])
boolToData(b) == Constr(IF b THEN 1 ELSE 0, << >>)

buildIdentityLinkage(linkage) ==
    Constr(0, << boolToData(linkage.ephemeralRequired),
                 boolToData(linkage.proofOfRootAllowed),
                 boolToData(linkage.zkContinuityAllowed) >>)

\* value || "" for a string-typed value
OrEmpty(s) == IF Truthy(s) THEN s ELSE EmptyString

\* buildPolicyDatum with the policy id written as one more field
buildPolicyDatumWithId(p) ==
    LET Datum(retention) ==
            IF IsThrown(retention) THEN retention
            ELSE Constr(0, << BytesData(p.ownerPkh),
                              IntData(p.minPayment),
                              IntData(retention),
                              buildIdentityLinkage(p.identityLinkage),
                              BytesData(OrEmpty(p.requiredProofHash)),
                              BytesData(stringToHex(p.contextScope)),
                              BytesData(stringToHex(p.id)) >>)
    IN  Datum(BigInt(p.maxRetentionMs))

\* buildPolicyDatum with maxRetentionMs written before minPayment
buildPolicyDatumRetentionFirst(p) ==
    LET Datum(retention) ==
            IF IsThrown(retention) THEN retention
            ELSE Constr(0, << BytesData(p.ownerPkh),
                              IntData(retention),
                              IntData(p.minPayment),
                              buildIdentityLinkage(p.identityLinkage),
                              BytesData(OrEmpty(p.requiredProofHash)),
                              BytesData(stringToHex(p.contextScope)) >>)
    IN  Datum(BigInt(p.maxRetentionMs))

\* buildPolicyDatum writing only whether a payment is required
buildPolicyDatumPaymentFlag(p) ==
    LET Datum(retention) ==
            IF IsThrown(retention) THEN retention
            ELSE Constr(0, << BytesData(p.ownerPkh),
                              IntData(IF BigIntLess(0, p.minPayment)
                                      THEN 1 ELSE 0),
                              IntData(retention),
                              buildIdentityLinkage(p.identityLinkage),
                              BytesData(OrEmpty(p.requiredProofHash)),
                              BytesData(stringToHex(p.contextScope)) >>)
    IN  Datum(BigInt(p.maxRetentionMs))

\* buildPolicyDatum: the Constr it returns, or what BigInt throws
buildPolicyDatum(p) ==
    LET Datum(retention) ==
            IF IsThrown(retention) THEN retention
            ELSE Constr(0, << BytesData(p.ownerPkh),
                              IntData(p.minPayment),
                              IntData(retention),
                              buildIdentityLinkage(p.identityLinkage),
                              BytesData(OrEmpty(p.requiredProofHash)),
                              BytesData(stringToHex(p.contextScope)) >>)
    IN  Datum(BigInt(p.maxRetentionMs))

\* buildAccessRedeemer with paymentAmount written before accessTime
buildAccessRedeemerPaymentFirst(r) ==
    LET Redeemer(time) ==
            IF IsThrown(time) THEN time
            ELSE Constr(0, << BytesData(stringToHex(r.requesterDid)),
                              BytesData(OrEmpty(r.proofReference)),
                              IntData(r.paymentAmount),
                              IntData(time) >>)
    IN  Redeemer(BigInt(r.accessTime))

\* buildAccessRedeemer: the Constr it returns, or what BigInt throws
buildAccessRedeemer(r) ==
    LET Redeemer(time) ==
            IF IsThrown(time) THEN time
            ELSE Constr(0, << BytesData(stringToHex(r.requesterDid)),
                              BytesData(OrEmpty(r.proofReference)),
                              IntData(time),
                              IntData(r.paymentAmount) >>)
    IN  Redeemer(BigInt(r.accessTime))

\* dataToBool: a Constr is true exactly when its index is 1
dataToBool(d) ==
    IF d.t # "constr" THEN Thrown("Invalid Bool data: expected Constr")
    ELSE Returned(d.index = 1)

\* parseIdentityLinkage reading the first three of any number of fields
parseIdentityLinkageAtLeast(data) ==
    IF data.t # "constr"
    THEN Thrown("Invalid IdentityLinkage data: expected Constr")
    ELSE IF Len(data.fields) < 3
    THEN Thrown("Invalid IdentityLinkage data: expected 3 fields, got "
                    \o ToString(Len(data.fields)))
    ELSE LET e == dataToBool(data.fields[1])
             r == dataToBool(data.fields[2])
             z == dataToBool(data.fields[3])
         IN  IF ~e.ok THEN e
             ELSE IF ~r.ok THEN r
             ELSE IF ~z.ok THEN z
             ELSE Returned([ephemeralRequired |-> e.value,
                            proofOfRootAllowed |-> r.value,
                            zkContinuityAllowed |-> z.value])

parseIdentityLinkage(data) ==
    IF data.t # "constr"
    THEN Thrown("Invalid IdentityLinkage data: expected Constr")
    ELSE IF Len(data.fields) # 3
    THEN Thrown("Invalid IdentityLinkage data: expected 3 fields, got "
                    \o ToString(Len(data.fields)))
    ELSE LET e == dataToBool(data.fields[1])
             r == dataToBool(data.fields[2])
             z == dataToBool(data.fields[3])
         IN  IF ~e.ok THEN e
             ELSE IF ~r.ok THEN r
             ELSE IF ~z.ok THEN z
             ELSE Returned([ephemeralRequired |-> e.value,
                            proofOfRootAllowed |-> r.value,
                            zkContinuityAllowed |-> z.value])

\* Number(x) of a node: of a bigint the double nearest to it, of a hex
\* string the number its text is a literal of, of a Constr object NaN
ToNumber(node) ==
    IF node.t = "constr" THEN NaN
    ELSE IF node.t = "int" /\ ~IsRecord(node.n) THEN node.n
    ELSE StringToNumber(IF node.t = "int" THEN TextUnits(node.n.big)
                        ELSE node.hex)

\* the id of every parsed policy: ""
ParsedId == EmptyString

parsePolicyDatum(data) ==
    IF data.t # "constr"
    THEN Thrown("Invalid PolicyDatum data: expected Constr")
    ELSE IF Len(data.fields) # 6
    THEN Thrown("Invalid PolicyDatum data: expected 6 fields, got "
                    \o ToString(Len(data.fields)))
    ELSE LET f == data.fields
             linkage == parseIdentityLinkage(f[4])
         IN  IF ~linkage.ok THEN linkage
             ELSE IF f[6].t # "bytes" THEN Thrown("TypeError")
             ELSE Returned([id |-> ParsedId,
                            ownerPkh |-> NodeValue(f[1]),
                            minPayment |-> NodeValue(f[2]),
                            maxRetentionMs |-> ToNumber(f[3]),
                            identityLinkage |-> linkage.value,
                            requiredProofHash |-> NodeValue(f[5]),
                            contextScope |-> hexToString(f[6].hex)])

(***************************************************************************)
(* Data.to and Data.from of the Lucid SDK: the CBOR of Plutus Data in the  *)
(* node's format.  A Constr with index 0..6 is tag 121 + index, with index *)
(* 7..127 tag 1280 + (index - 7), otherwise tag 102 over [index, fields];  *)
(* its fields are the empty array 0x80 or an indefinite array 0x9f..0xff.  *)
(* A byte string of more than 64 bytes is written in chunks of 64.  An     *)
(* integer is major type 0 or 1 with the shortest argument as long as its  *)
(* argument is below 2^64, and a bignum from there on: tag 2 or 3 over the *)
(* bytes of the argument.                                                  *)
(***************************************************************************)
\* the initial byte(s) of an item: major type and argument below 2^31
CborHead(major, n) ==
    IF n < 24 THEN <<major * 32 + n>>
    ELSE IF n < 256 THEN <<major * 32 + 24, n>>
    ELSE IF n < 65536 THEN <<major * 32 + 25, n \div 256, n % 256>>
    ELSE <<major * 32 + 26, n \div 16777216, (n \div 65536) % 256,
           (n \div 256) % 256, n % 256>>

CborTag(index) ==
    IF index <= 6 THEN <<216, 121 + index>>
    ELSE IF index <= 127 THEN <<217, 5, index - 7>>
    ELSE <<216, 102, 130>> \o CborHead(0, index)

RECURSIVE CborChunks(_)
CborChunks(bytes) ==
    IF Len(bytes) <= 64 THEN CborHead(2, Len(bytes)) \o bytes
    ELSE CborHead(2, 64) \o SubSeq(bytes, 1, 64)
             \o CborChunks(SubSeq(bytes, 65, Len(bytes)))

CborBytes(bytes) ==
    IF Len(bytes) <= 64 THEN CborHead(2, Len(bytes)) \o bytes
    ELSE <<95>> \o CborChunks(bytes) \o <<255>>

\* the bits of a sequence of bytes, most significant first
BytesBits(bytes) ==
    AsSequence([i \in 1 .. 8 * Len(bytes) |->
        (bytes[(i - 1) \div 8 + 1] \div (2 ^ (7 - ((i - 1) % 8)))) % 2])

\* bits as the given number of bytes, most significant first
BitsBytes(bits, count) ==
    LET Bytes(padded) ==
            AsSequence([j \in 1 .. count |->
                128 * padded[8 * j - 7] + 64 * padded[8 * j - 6]
                    + 32 * padded[8 * j - 5] + 16 * padded[8 * j - 4]
                    + 8 * padded[8 * j - 3] + 4 * padded[8 * j - 2]
                    + 2 * padded[8 * j - 1] + padded[8 * j]])
    IN  Bytes(Zeros(8 * count - Len(bits)) \o bits)

\* the bits of the magnitude of a bigint, the first of them 1
BigIntBits(n) == StripLeadingZeros(IntegerBits(BigIntParts(n).digits))

\* an integer: the argument is n, or -1 - n for a negative n
CborInt(n) ==
    LET Narrow(c) == IF c >= 0 THEN CborHead(0, c)
                     ELSE CborHead(1, (0 - 1) - c)
        Wide(major, bits) ==
            IF Len(bits) <= 64
            THEN <<major * 32 + (IF Len(bits) <= 32 THEN 26 ELSE 27)>>
                     \o BitsBytes(bits, IF Len(bits) <= 32 THEN 4 ELSE 8)
            ELSE <<194 + major>>
                     \o CborBytes(BitsBytes(bits, (Len(bits) + 7) \div 8))
        Argument(neg, magnitude) ==
            Wide(IF neg THEN 1 ELSE 0,
                 IF neg THEN StripLeadingZeros(BitsDecrement(magnitude))
                 ELSE magnitude)
        Whole(parts, whole) ==
            IF ~IsRecord(whole) THEN Narrow(whole)
            ELSE Argument(parts.neg,
                          StripLeadingZeros(IntegerBits(parts.digits)))
        Parts(parts) == Whole(parts, BigIntOf(parts.neg, parts.digits))
    IN  IF ~IsRecord(n) THEN Narrow(n) ELSE Parts(BigIntParts(n))

RECURSIVE CborEncode(_)
RECURSIVE CborEncodeAll(_)
CborEncodeAll(nodes) ==
    IF nodes = << >> THEN << >>
    ELSE CborEncode(nodes[1]) \o CborEncodeAll(Tail(nodes))

CborEncode(node) ==
    IF node.t = "int" THEN CborInt(node.n)
    ELSE IF node.t = "bytes" THEN CborBytes(HexToBytes(node.hex))
    ELSE CborTag(node.index)
             \o (IF node.fields = << >> THEN <<128>>
                 ELSE <<159>> \o CborEncodeAll(node.fields) \o <<255>>)

\* Data.to(data): the CBOR as a lowercase hex string
DataTo(data) == BytesToHex(CborEncode(data))

\* the natural number with the given bytes, most significant first
BytesValue(bytes) == BigIntOf(FALSE, BitsToDecimal(BytesBits(bytes)))

\* the argument of the item starting at bytes[i]: its value and the index
\* after it; not ok when the bytes run out
CborArg(bytes, i) ==
    LET ai == bytes[i] % 32
        width == IF ai = 24 THEN 1 ELSE IF ai = 25 THEN 2
                 ELSE IF ai = 26 THEN 4 ELSE 8
    IN  IF ai < 24 THEN [ok |-> TRUE, n |-> ai, next |-> i + 1]
        ELSE IF ai > 27 \/ i + width > Len(bytes) THEN [ok |-> FALSE]
        ELSE [ok |-> TRUE,
              n |-> IF width = 1 THEN bytes[i + 1]
                    ELSE IF width = 2 THEN bytes[i + 1] * 256 + bytes[i + 2]
                    ELSE BytesValue(SubSeq(bytes, i + 1, i + width)),
              next |-> i + width + 1]

\* the integer -1 - n of a negative integer with the argument n
CborNegative(n) ==
    IF ~IsRecord(n) /\ n < 2147483647 THEN (0 - 1) - n
    ELSE BigIntOf(TRUE, BitsToDecimal(BitsIncrement(BigIntBits(n))))

\* the Constr index a tag stands for, -1 when it is no Constr tag
TagIndex(tag) ==
    IF tag >= 121 /\ tag <= 127 THEN tag - 121
    ELSE IF tag >= 1280 /\ tag <= 1400 THEN tag - 1280 + 7
    ELSE -1

\* the bytes of the definite byte string with the argument arg, which
\* starts at bytes[i], after the bytes acc
CborChunk(bytes, arg, acc) ==
    IF ~arg.ok THEN [ok |-> FALSE]
    ELSE IF IsRecord(arg.n) THEN [ok |-> FALSE]
    ELSE IF arg.next + arg.n - 1 > Len(bytes) THEN [ok |-> FALSE]
    ELSE [ok |-> TRUE,
          bytes |-> acc \o SubSeq(bytes, arg.next, arg.next + arg.n - 1),
          next |-> arg.next + arg.n]

\* the chunks of an indefinite byte string from bytes[i] up to the break
\* byte 0xff, each of them a definite byte string
RECURSIVE CborChunksFrom(_, _, _)
CborChunksFrom(bytes, i, acc) ==
    LET After(chunk) ==
            IF ~chunk.ok THEN chunk
            ELSE CborChunksFrom(bytes, chunk.next, chunk.bytes)
    IN  IF i > Len(bytes) THEN [ok |-> FALSE]
        ELSE IF bytes[i] = 255
        THEN [ok |-> TRUE, bytes |-> acc, next |-> i + 1]
        ELSE IF bytes[i] \div 32 # 2 THEN [ok |-> FALSE]
        ELSE After(CborChunk(bytes, CborArg(bytes, i), acc))

\* the byte string starting at bytes[i], definite or in chunks
CborByteString(bytes, i) ==
    IF i > Len(bytes) THEN [ok |-> FALSE]
    ELSE IF bytes[i] = 95 THEN CborChunksFrom(bytes, i + 1, << >>)
    ELSE IF bytes[i] \div 32 # 2 THEN [ok |-> FALSE]
    ELSE CborChunk(bytes, CborArg(bytes, i), << >>)

RECURSIVE CborDecode(_, _)
RECURSIVE CborDecodeCount(_, _, _, _)
RECURSIVE CborDecodeUntilBreak(_, _, _)

\* count items from bytes[i]
CborDecodeCount(bytes, i, count, acc) ==
    LET After(item) ==
            IF ~item.ok THEN [ok |-> FALSE]
            ELSE CborDecodeCount(bytes, item.next, count - 1,
                                 Append(acc, item.node))
    IN  IF count = 0 THEN [ok |-> TRUE, items |-> acc, next |-> i]
        ELSE After(CborDecode(bytes, i))

\* the items from bytes[i] up to the break byte 0xff
CborDecodeUntilBreak(bytes, i, acc) ==
    LET After(item) ==
            IF ~item.ok THEN [ok |-> FALSE]
            ELSE CborDecodeUntilBreak(bytes, item.next,
                                      Append(acc, item.node))
    IN  IF i > Len(bytes) THEN [ok |-> FALSE]
        ELSE IF bytes[i] = 255
        THEN [ok |-> TRUE, items |-> acc, next |-> i + 1]
        ELSE After(CborDecode(bytes, i))

\* the array starting at bytes[i]
CborArray(bytes, i) ==
    LET Items(arg) ==
            IF ~arg.ok THEN [ok |-> FALSE]
            ELSE IF IsRecord(arg.n) THEN [ok |-> FALSE]
            ELSE CborDecodeCount(bytes, arg.next, arg.n, << >>)
    IN  IF i > Len(bytes) \/ bytes[i] \div 32 # 4 THEN [ok |-> FALSE]
        ELSE IF bytes[i] = 159
        THEN CborDecodeUntilBreak(bytes, i + 1, << >>)
        ELSE Items(CborArg(bytes, i))

\* the bignum after tag 2 or 3: a byte string, the bytes of its argument
CborBignum(bytes, i, tag) ==
    LET Number(str, n) ==
            IF ~str.ok THEN [ok |-> FALSE]
            ELSE [ok |-> TRUE,
                  node |-> IntData(IF tag = 2 THEN n ELSE CborNegative(n)),
                  next |-> str.next]
        Value(str) ==
            Number(str, IF str.ok THEN BytesValue(str.bytes) ELSE 0)
    IN  Value(CborByteString(bytes, i))

\* the item starting at bytes[i]: an integer, a byte string or a Constr
\* with one of the compact tags; any other item is outside the model and
\* decodes to not ok
CborDecode(bytes, i) ==
    LET Bytes(str) ==
            IF ~str.ok THEN [ok |-> FALSE]
            ELSE [ok |-> TRUE, node |-> BytesData(BytesToHex(str.bytes)),
                  next |-> str.next]
        Fields(index, fields) ==
            IF ~fields.ok THEN [ok |-> FALSE]
            ELSE [ok |-> TRUE, node |-> Constr(index, fields.items),
                  next |-> fields.next]
        Item(major, arg) ==
            IF ~arg.ok THEN [ok |-> FALSE]
            ELSE IF major = 0
            THEN [ok |-> TRUE, node |-> IntData(arg.n), next |-> arg.next]
            ELSE IF major = 1
            THEN [ok |-> TRUE, node |-> IntData(CborNegative(arg.n)),
                  next |-> arg.next]
            ELSE IF major # 6 THEN [ok |-> FALSE]
            ELSE IF IsRecord(arg.n) THEN [ok |-> FALSE]
            ELSE IF arg.n \in {2, 3} THEN CborBignum(bytes, arg.next, arg.n)
            ELSE IF TagIndex(arg.n) >= 0
            THEN Fields(TagIndex(arg.n), CborArray(bytes, arg.next))
            ELSE [ok |-> FALSE]
    IN  IF i > Len(bytes) THEN [ok |-> FALSE]
        ELSE IF bytes[i] \div 32 = 2 THEN Bytes(CborByteString(bytes, i))
        ELSE Item(bytes[i] \div 32, CborArg(bytes, i))

\* Data.from(cbor): the tree, or an Error when the bytes are no Plutus Data
DataFrom(hex) ==
    LET Whole(bytes, item) ==
            IF item.ok /\ item.next = Len(bytes) + 1 THEN Returned(item.node)
            ELSE Thrown("Invalid CBOR")
        Decoded(bytes) == Whole(bytes, CborDecode(bytes, 1))
    IN  Decoded(HexToBytes(hex))

\* serializeDatum: Data.to of the datum, or what buildPolicyDatum throws
serializeDatum(p) ==
    LET Serialized(data) == IF IsThrown(data) THEN data ELSE DataTo(data)
    IN  Serialized(buildPolicyDatum(p))

deserializeDatum(hex) ==
    LET Parsed(data) ==
            IF ~data.ok THEN data ELSE parsePolicyDatum(data.value)
    IN  Parsed(DataFrom(hex))

(***************************************************************************)
(* The on-chain script: func main of the Helios source embedded in         *)
(* compile.ts.  policy is its Policy struct (owner, max_retention,          *)
(* derivatives_forbidden, required_payment), redeemer its                   *)
(* ValidationRedeemer struct (three hashes and retention_timestamp), tx the *)
(* transaction of the script context: its signers and its outputs.  The    *)
(* amounts the script is run on are integers of at most 31 bits.           *)
(***************************************************************************)
\* tx.is_signed_by(policy.owner)
owner_signed(p, tx) == p.owner \in tx.signers

\* redeemer.retention_timestamp <= policy.max_retention
retention_valid(p, r) == r.retention_timestamp <= p.max_retention

\* tx.value_sent_to(pkh).get_lovelace(): the lovelace of the outputs at the
\* address of the key hash
RECURSIVE value_sent_to(_, _)
value_sent_to(outputs, pkh) ==
    IF outputs = << >> THEN 0
    ELSE (IF /\ "keyHash" \in DOMAIN Head(outputs).address
             /\ Head(outputs).address.keyHash = pkh
          THEN Head(outputs).lovelace ELSE 0)
         + value_sent_to(Tail(outputs), pkh)

\* the payment to policy.owner, if policy.required_payment asks for one
payment_valid(p, tx) ==
    IF p.required_payment > 0
    THEN value_sent_to(tx.outputs, p.owner) >= p.required_payment
    ELSE TRUE

\* main(policy, redeemer, ctx), with tx the transaction of ctx
main(p, r, tx) ==
    /\ owner_signed(p, tx)
    /\ retention_valid(p, r)
    /\ payment_valid(p, tx)

(***************************************************************************)
(* The Lucid provider (lucid/provider) and SPALEnforcer.initLucid.          *)
(***************************************************************************)
\* null: a field of the enforcer that is not set, a cache that is empty
Null == [null |-> TRUE]

\* "localhost", "127.0.0.1", ":1337" and ":1442"
Localhost == <<108, 111, 99, 97, 108, 104, 111, 115, 116>>
Loopback == <<49, 50, 55, 46, 48, 46, 48, 46, 49>>
OgmiosPort == <<58, 49, 51, 51, 55>>
KupoPort == <<58, 49, 52, 52, 50>>
\* "http://localhost:1337", "https://preview.bf.io", "https://mainnet.bf.io"
\* and "key1": provider URLs and an API key
UrlLocal == <<104, 116, 116, 112, 58, 47, 47>> \o Localhost \o OgmiosPort
UrlPreview == <<104, 116, 116, 112, 115, 58, 47, 47, 112, 114, 101, 118, 105,
                101, 119, 46, 98, 102, 46, 105, 111>>
UrlMainnet == <<104, 116, 116, 112, 115, 58, 47, 47, 109, 97, 105, 110, 110,
                101, 116, 46, 98, 102, 46, 105, 111>>
ApiKey == <<107, 101, 121, 49>>

\* String.prototype.replace with a string pattern: the first occurrence
RECURSIVE ReplaceFirst(_, _, _)
ReplaceFirst(s, part, by) ==
    IF StartsWith(s, part) THEN by \o SubSeq(s, Len(part) + 1, Len(s))
    ELSE IF s = << >> THEN s
    ELSE <<Head(s)>> \o ReplaceFirst(Tail(s), part, by)

\* createProvider: Kupmios for a local URL, Blockfrost (which needs an API
\* key) for any other
createProvider(config) ==
    IF \/ Includes(config.providerUrl, Localhost)
       \/ Includes(config.providerUrl, Loopback)
    THEN Returned([kind |-> "Kupmios", url |-> config.providerUrl,
                   kupoUrl |-> ReplaceFirst(config.providerUrl, OgmiosPort,
                                            KupoPort)])
    ELSE IF ~Truthy(config.apiKey)
    THEN Thrown("Blockfrost API key required for non-local networks")
    ELSE Returned([kind |-> "Blockfrost", url |-> config.providerUrl,
                   projectId |-> config.apiKey])

Networks == {"Mainnet", "Preprod", "Preview", "Custom"}

mapNetwork(network) ==
    IF network \in Networks THEN Returned(network)
    ELSE Thrown("Unknown network: " \o network)

\* initializeLucid up to its await: the error thrown before it, or the
\* Lucid instance that Lucid(provider, network) resolves to when it resolves
initializeLucid(config) ==
    LET provider == createProvider(config)
        network == mapNetwork(config.network)
    IN  IF ~provider.ok THEN provider
        ELSE IF ~network.ok THEN network
        ELSE Returned([provider |-> provider.value,
                       network |-> network.value])

\* validatorToAddress of the Lucid SDK: it reads the bytes of the script
\* from validator.script and throws when that string spells no bytes (it
\* is not made of hexadecimal digits, two for each byte); the address of a
\* script is made of the network id (1 for Mainnet, 0 for every other
\* network) and the script
networkToId(network) == IF network = "Mainnet" THEN 1 ELSE 0
validatorToAddress(network, validator) ==
    LET IsHex(str) ==
            /\ Len(str) % 2 = 0
            /\ \A i \in 1 .. Len(str) : DigitValue(str[i]) >= 0
    IN  IF ~IsHex(validator.script) THEN Thrown("validatorToAddress")
        ELSE [networkId |-> networkToId(network),
              script |-> validator.script]

\* new SPALEnforcer(script)
NewEnforcer(script) ==
    [script |-> script, lucid |-> Null, validator |-> Null,
     scriptAddress |-> Null, network |-> "Preview"]

\* initLucid whose script address is derived from the network stored before
\* the call
initLucidStaleNetwork(e, config, lucid) ==
    LET validator == [type |-> "PlutusV3", script |-> e.script.cborHex]
        assigned == [e EXCEPT !.lucid = lucid,
                              !.network = config.network,
                              !.validator = validator]
        Derived(address) ==
            IF IsThrown(address)
            THEN [enforcer |-> assigned, result |-> address]
            ELSE [enforcer |-> [assigned EXCEPT !.scriptAddress = address],
                  result |-> Returned(Undefined)]
    IN  Derived(validatorToAddress(e.network, validator))

\* initLucid after its await, statement by statement: this.lucid,
\* this.network and this.validator are assigned, then validatorToAddress is
\* called and this.scriptAddress is assigned what it returns; when it
\* throws, initLucid throws with the first three fields assigned and
\* scriptAddress as it was.  The enforcer the call leaves, and its result
initLucid(e, config, lucid) ==
    LET network == IF config.network = "Custom" THEN "Custom"
                   ELSE config.network
        validator == [type |-> "PlutusV3", script |-> e.script.cborHex]
        assigned == [e EXCEPT !.lucid = lucid,
                              !.network = network,
                              !.validator = validator]
        Derived(address) ==
            IF IsThrown(address)
            THEN [enforcer |-> assigned, result |-> address]
            ELSE [enforcer |-> [assigned EXCEPT !.scriptAddress = address],
                  result |-> Returned(Undefined)]
    IN  Derived(validatorToAddress(network, validator))

(***************************************************************************)
(* The on-chain operations of SPALEnforcer.  The ledger holds the UTxOs at  *)
(* script addresses; a UTxO is a record of txHash, outputIndex, address,    *)
(* datum (the CBOR hex of an inline datum, or undefined) and lovelace.  An  *)
(* async method runs from its call to its first await in one piece and      *)
(* from each answer to the next await or to its end; in between other       *)
(* calls on the enforcer run.  A call in flight is a record of pc (the SDK  *)
(* call it waits for), what it holds in its local variables, and touched:   *)
(* the SDK calls it has made (a chain query, complete, sign, submit).       *)
(* Whether an SDK call succeeds is the answer of the outside.               *)
(***************************************************************************)
\* 2_000_000n
MIN_UTXO_LOVELACE == 2000000

NotInitialized == "Lucid not initialized. Call initLucid first."

\* lucid.utxosAt(address)
utxosAt(ledger, address) == SelectSeq(ledger, LAMBDA u : u.address = address)

\* credentialToAddress(network, keyHashToCredential(pkh)) of the Lucid SDK
credentialToAddress(network, pkh) ==
    [networkId |-> networkToId(network), keyHash |-> pkh]

\* a call that has ended: what it returned or threw, and the SDK calls it
\* made
Done(result, touched) ==
    [pc |-> "done", result |-> result, touched |-> touched]

getScriptAddress(e) ==
    IF e.scriptAddress = Null THEN Done(Thrown(NotInitialized), {})
    ELSE Done(Returned(e.scriptAddress), {})

\* the output createPolicyUtxo pays to the script address
PolicyOutput(e, p) ==
    [address |-> e.scriptAddress, datum |-> DataTo(buildPolicyDatum(p)),
     lovelace |-> MIN_UTXO_LOVELACE]

\* createPolicyUtxo up to its first await: the guard, the datum, and the
\* transaction whose complete() it waits for
createPolicyUtxoStart(e, p) ==
    IF e.lucid = Null \/ e.scriptAddress = Null
    THEN Done(Thrown(NotInitialized), {})
    ELSE IF IsThrown(buildPolicyDatum(p))
    THEN Done(buildPolicyDatum(p), {})
    ELSE [pc |-> "complete",
          tx |-> [inputs |-> << >>, outputs |-> <<PolicyOutput(e, p)>>],
          touched |-> {"complete"}]

\* createPolicyUtxo after complete(): it asks the wallet to sign
createPolicyUtxoCompleted(call, answer) ==
    IF answer = "ok"
    THEN [pc |-> "sign", tx |-> call.tx,
          touched |-> call.touched \cup {"sign"}]
    ELSE Done(Thrown("complete"), call.touched)

\* createPolicyUtxo after the signing: it submits
createPolicyUtxoSigned(call, answer) ==
    IF answer = "ok"
    THEN [pc |-> "submit", tx |-> call.tx,
          touched |-> call.touched \cup {"submit"}]
    ELSE Done(Thrown("sign"), call.touched)

\* createPolicyUtxo after submit(): it returns the transaction hash
createPolicyUtxoSubmitted(call, answer, txHash) ==
    IF answer = "ok" THEN Done(Returned(txHash), call.touched)
    ELSE Done(Thrown("submit"), call.touched)

\* the loop of findPolicyUtxos: a UTxO without datum is passed over, one
\* whose datum does not decode is skipped by the catch
RECURSIVE CollectPolicies(_)
CollectPolicies(utxos) ==
    IF utxos = << >> THEN << >>
    ELSE LET utxo == Head(utxos)
             rest == CollectPolicies(Tail(utxos))
         IN  IF ~Truthy(utxo.datum) THEN rest
             ELSE LET data == DataFrom(utxo.datum)
                      decodedPolicy ==
                          IF ~data.ok THEN data
                          ELSE parsePolicyDatum(data.value)
                  IN  IF ~decodedPolicy.ok THEN rest
                      ELSE << [txHash |-> utxo.txHash,
                               outputIndex |-> utxo.outputIndex,
                               datum |-> decodedPolicy.value,
                               lovelace |-> utxo.lovelace] >> \o rest

\* findPolicyUtxos up to its await: the guard and the chain query
findPolicyUtxosStart(e) ==
    IF e.lucid = Null \/ e.scriptAddress = Null
    THEN Done(Thrown(NotInitialized), {})
    ELSE [pc |-> "utxosAt", queried |-> e.scriptAddress,
          touched |-> {"utxosAt"}]

\* findPolicyUtxos without the try and catch around the decoding
findPolicyUtxosAborting(call, ledger, answer) ==
    IF answer = "queryFails" THEN Done(Thrown("utxosAt"), call.touched)
    ELSE IF \E k \in 1 .. Len(utxosAt(ledger, call.queried)) :
                LET utxo == utxosAt(ledger, call.queried)[k]
                IN  /\ Truthy(utxo.datum)
                    /\ \/ ~DataFrom(utxo.datum).ok
                       \/ ~parsePolicyDatum(DataFrom(utxo.datum).value).ok
    THEN Done(Thrown("Invalid datum"), call.touched)
    ELSE Done(Returned(CollectPolicies(utxosAt(ledger, call.queried))),
              call.touched)

\* findPolicyUtxos after the chain query: the query failed, or the UTxOs it
\* gave are scanned
findPolicyUtxosResume(call, ledger, answer) ==
    IF answer = "queryFails" THEN Done(Thrown("utxosAt"), call.touched)
    ELSE Done(Returned(CollectPolicies(utxosAt(ledger, call.queried))),
              call.touched)

\* buildValidationTx up to its first await: the guard, the redeemer and the
\* datum, and the chain query it waits for
buildValidationTxStart(e, p, policyUtxo, r) ==
    IF e.lucid = Null \/ e.validator = Null \/ e.scriptAddress = Null
    THEN Done(Thrown(NotInitialized), {})
    ELSE IF IsThrown(buildAccessRedeemer(r))
    THEN Done(buildAccessRedeemer(r), {})
    ELSE IF IsThrown(buildPolicyDatum(p))
    THEN Done(buildPolicyDatum(p), {})
    ELSE [pc |-> "utxosAt",
          policy |-> p,
          policyUtxo |-> policyUtxo,
          request |-> r,
          redeemerCbor |-> DataTo(buildAccessRedeemer(r)),
          datumCbor |-> DataTo(buildPolicyDatum(p)),
          queried |-> e.scriptAddress,
          touched |-> {"utxosAt"}]

\* utxos.find(...): the first UTxO with the hash and index asked for
FindUtxo(utxos, policyUtxo) ==
    SelectSeq(utxos, LAMBDA u : /\ u.txHash = policyUtxo.txHash
                                 /\ u.outputIndex = policyUtxo.outputIndex)

\* the payment output of buildValidationTx, if it adds one
PaymentOutputs(e, p, r) ==
    IF BigIntLess(0, p.minPayment) /\ BigIntLess(0, r.paymentAmount)
    THEN << [address |-> credentialToAddress(e.network, p.ownerPkh),
             lovelace |-> r.paymentAmount] >>
    ELSE << >>

\* buildValidationTx paying the owner whenever the policy asks for a payment
buildValidationTxPayWhenRequired(e, ledger, call, answer) ==
    IF answer = "queryFails" THEN Done(Thrown("utxosAt"), call.touched)
    ELSE LET found == FindUtxo(utxosAt(ledger, call.queried), call.policyUtxo)
         IN  IF found = << >>
             THEN Done(Thrown("Policy UTxO not found"), call.touched)
             ELSE [pc |-> "complete",
                   tx |-> [inputs |-> <<found[1]>>,
                           redeemer |-> call.redeemerCbor,
                           validator |-> e.validator,
                           signers |-> {call.policy.ownerPkh},
                           outputs |->
                               (IF BigIntLess(0, call.policy.minPayment)
                                THEN << [address |->
                                             credentialToAddress(e.network,
                                                 call.policy.ownerPkh),
                                         lovelace |->
                                             call.request.paymentAmount] >>
                                ELSE << >>)
                               \o << [address |-> e.scriptAddress,
                                      datum |-> call.datumCbor,
                                      lovelace |-> MIN_UTXO_LOVELACE] >>],
                   touched |-> call.touched \cup {"complete"}]

\* buildValidationTx after the chain query: the UTxO is looked up and the
\* transaction built (the spent UTxO with the redeemer, the validator, the
\* owner as signer, the payment output if any, the datum returned to the
\* script address), with the fields the enforcer has then; complete() is
\* what it waits for next
buildValidationTxResume(e, ledger, call, answer) ==
    IF answer = "queryFails" THEN Done(Thrown("utxosAt"), call.touched)
    ELSE LET found == FindUtxo(utxosAt(ledger, call.queried), call.policyUtxo)
         IN  IF found = << >>
             THEN Done(Thrown("Policy UTxO not found"), call.touched)
             ELSE [pc |-> "complete",
                   tx |-> [inputs |-> <<found[1]>>,
                           redeemer |-> call.redeemerCbor,
                           validator |-> e.validator,
                           signers |-> {call.policy.ownerPkh},
                           outputs |->
                               PaymentOutputs(e, call.policy, call.request)
                               \o << [address |-> e.scriptAddress,
                                      datum |-> call.datumCbor,
                                      lovelace |-> MIN_UTXO_LOVELACE] >>],
                   touched |-> call.touched \cup {"complete"}]

\* buildValidationTx after complete(): it returns the transaction
buildValidationTxCompleted(call, answer) ==
    IF answer = "ok" THEN Done(Returned([txCbor |-> call.tx]), call.touched)
    ELSE Done(Thrown("complete"), call.touched)

\* signAndSubmitValidationTx up to its first await: the guard, and the
\* signing of the transaction
signAndSubmitValidationTxStart(e, unsignedTxCbor) ==
    IF e.lucid = Null THEN Done(Thrown(NotInitialized), {})
    ELSE [pc |-> "sign", tx |-> unsignedTxCbor, touched |-> {"sign"}]

\* signAndSubmitValidationTx after the signing: it submits
signAndSubmitValidationTxSigned(call, answer) ==
    IF answer = "ok"
    THEN [pc |-> "submit", tx |-> call.tx,
          touched |-> call.touched \cup {"submit"}]
    ELSE Done(Thrown("sign"), call.touched)

\* signAndSubmitValidationTx after submit(): it returns the hash
signAndSubmitValidationTxSubmitted(call, answer, txHash) ==
    IF answer = "ok" THEN Done(Returned(txHash), call.touched)
    ELSE Done(Thrown("submit"), call.touched)

\* the ledger after a transaction: its inputs are spent and its outputs to
\* script addresses are new UTxOs, numbered by their place in the transaction
IsScriptOutput(o) == "script" \in DOMAIN o.address

RECURSIVE NewUtxos(_, _, _)
NewUtxos(outputs, txHash, index) ==
    IF outputs = << >> THEN << >>
    ELSE (IF IsScriptOutput(Head(outputs))
          THEN << [txHash |-> txHash, outputIndex |-> index,
                   address |-> Head(outputs).address,
                   datum |-> Head(outputs).datum,
                   lovelace |-> Head(outputs).lovelace] >>
          ELSE << >>)
         \o NewUtxos(Tail(outputs), txHash, index + 1)

Submitted(ledger, tx, txHash) ==
    SelectSeq(ledger, LAMBDA u : \A k \in 1 .. Len(tx.inputs) :
                                     tx.inputs[k] # u)
        \o NewUtxos(tx.outputs, txHash, 0)

\* the ledger takes a transaction whose inputs are all unspent
Spendable(ledger, tx) ==
    \A k \in 1 .. Len(tx.inputs) :
        \E n \in 1 .. Len(ledger) : ledger[n] = tx.inputs[k]

\* the hashes of the transactions the calls have submitted
SubmittedHashes(slots) ==
    { slots[i].result.value :
        i \in { j \in DOMAIN slots :
                  /\ slots[j].pc = "done"
                  /\ slots[j].name \in {"createPolicyUtxo",
                                        "signAndSubmitValidationTx"}
                  /\ slots[j].result.ok } }

\* the hash of the next transaction: one above every hash seen so far
NextTxHash(ledger, slots) ==
    LET seen == {0} \cup { ledger[k].txHash : k \in 1 .. Len(ledger) }
                    \cup SubmittedHashes(slots)
    IN  1 + CHOOSE h \in seen : \A other \in seen : other <= h

(***************************************************************************)
(* compile.ts: compileValidator and its cache.  runs counts the times the   *)
(* Helios compiler ran to the end; every run makes a new CompiledScript     *)
(* object, told apart by its object number.                                 *)
(***************************************************************************)
\* what program.compile() gives for the embedded source: "deadbeef" and
\* "abcd1234" stand for uplc.toCbor() and uplc.hash()
HeliosCbor == HashA
HeliosHash == PkhA

CompileError(cause) == "Failed to compile contract: " \o cause

\* compileValidator up to its await: the cached script if there is one,
\* otherwise the import of the compiler
compileValidatorStart(c) ==
    IF c.cachedScript # Null
    THEN [pc |-> "done", hit |-> TRUE, result |-> Returned(c.cachedScript)]
    ELSE [pc |-> "importing"]

\* compileValidator that caches what it has when the compiler fails
compileValidatorCachingFailure(c, answer) ==
    IF answer = "ok"
    THEN [cachedScript |-> [cborHex |-> HeliosCbor, hash |-> HeliosHash,
                            object |-> c.runs + 1],
          runs |-> c.runs + 1,
          result |-> Returned([cborHex |-> HeliosCbor, hash |-> HeliosHash,
                               object |-> c.runs + 1])]
    ELSE [cachedScript |-> [cborHex |-> HeliosCbor],
          runs |-> c.runs,
          result |-> Thrown(CompileError(answer))]

\* compileValidator after its await: the import failed, or the compiler
\* threw, or the script is compiled, cached and returned
compileValidatorResume(c, answer) ==
    IF answer = "ok"
    THEN LET script == [cborHex |-> HeliosCbor, hash |-> HeliosHash,
                        object |-> c.runs + 1]
         IN  [cachedScript |-> script,
              runs |-> c.runs + 1,
              result |-> Returned(script)]
    ELSE [cachedScript |-> c.cachedScript,
          runs |-> c.runs,
          result |-> Thrown(CompileError(answer))]

\* getCompiledScript returns the promise of compileValidator(): its own
\* promise settles, later, to what that one settled to
getCompiledScript(settled) == settled

\* SPALEnforcer.create after its await of compileValidator(): the script in
\* a new enforcer, or the error thrown on
create(settled) ==
    IF settled.ok THEN Returned(NewEnforcer(settled.value)) ELSE settled

(***************************************************************************)
(* The deploy script: waitForYaci.  probes counts the fetch calls, answers  *)
(* lists how each probe ended: "error" (fetch threw), "notOk" (a response   *)
(* that is not ok), "badBody" (an ok response whose body could not be read) *)
(* or "ok".                                                                 *)
(***************************************************************************)
YaciError == "Yaci devnet not available after 60 seconds"

\* the rest of a loop iteration that sleeps after the last probe as well
AfterProbeAlwaysSleeps(y, ended) ==
    IF y.i < y.maxAttempts
    THEN [y EXCEPT !.answers = Append(@, ended), !.pc = "sleeping",
                   !.sleeps = @ + 1]
    ELSE [y EXCEPT !.answers = Append(@, ended), !.pc = "done",
                   !.i = @ + 1, !.result = Thrown(YaciError)]

\* the rest of a loop iteration whose probe did not return: a sleep unless
\* it was the last iteration, after which the loop ends and the error is
\* thrown
AfterProbe(y, ended) ==
    IF y.i < y.maxAttempts - 1
    THEN [y EXCEPT !.answers = Append(@, ended), !.pc = "sleeping",
                   !.sleeps = @ + 1]
    ELSE [y EXCEPT !.answers = Append(@, ended), !.pc = "done",
                   !.i = @ + 1, !.result = Thrown(YaciError)]

\* waitForYaci(maxAttempts) up to its first await
waitForYaci(maxAttempts) ==
    IF 0 < maxAttempts
    THEN [pc |-> "fetching", maxAttempts |-> maxAttempts, i |-> 0,
          probes |-> 1, answers |-> << >>, sleeps |-> 0, result |-> Null]
    ELSE [pc |-> "done", maxAttempts |-> maxAttempts, i |-> 0,
          probes |-> 0, answers |-> << >>, sleeps |-> 0,
          result |-> Thrown(YaciError)]

(***************************************************************************)
(* The inputs of the model.                                                *)
(***************************************************************************)
Booleans == {TRUE, FALSE}
\* 1_000_000n lovelace (1 ADA) and 86400000 ms (one day), as in the tests
Million == 1000000
OneDayMs == 86400000

Amounts == (0 .. MaxAmount) \cup {500000, Million}
Linkages == [ephemeralRequired : Booleans, proofOfRootAllowed : Booleans,
             zkContinuityAllowed : Booleans]

MakePolicy(id, pkh, pay, ret, linkage, hash, scope) ==
    [id |-> id, ownerPkh |-> pkh, minPayment |-> pay, maxRetentionMs |-> ret,
     identityLinkage |-> linkage, requiredProofHash |-> hash,
     contextScope |-> scope]

\* the fields validate never reads, varied one at a time and all at once
BaseExtras == [id |-> IdA, ownerPkh |-> PkhA, maxRetentionMs |-> OneDayMs,
               contextScope |-> ScopeAscii, proofOfRootAllowed |-> TRUE,
               zkContinuityAllowed |-> FALSE]
PolicyExtras ==
    { BaseExtras,
      [BaseExtras EXCEPT !.id = IdB],
      [BaseExtras EXCEPT !.ownerPkh = PkhB],
      [BaseExtras EXCEPT !.maxRetentionMs = 0],
      [BaseExtras EXCEPT !.contextScope = ScopeLatin],
      [BaseExtras EXCEPT !.proofOfRootAllowed = FALSE],
      [BaseExtras EXCEPT !.zkContinuityAllowed = TRUE],
      [id |-> IdB, ownerPkh |-> PkhB, maxRetentionMs |-> 0,
       contextScope |-> ScopeLatin, proofOfRootAllowed |-> FALSE,
       zkContinuityAllowed |-> TRUE] }

WithExtras(x, eph, pay, hash) ==
    MakePolicy(x.id, x.ownerPkh, pay, x.maxRetentionMs,
               [ephemeralRequired |-> eph,
                proofOfRootAllowed |-> x.proofOfRootAllowed,
                zkContinuityAllowed |-> x.zkContinuityAllowed],
               hash, x.contextScope)

ProofHashes == {Undefined, EmptyString, HashA, HashB}
ProofReferences == {Undefined, EmptyString, RefA, RefB}
Dids == {Undefined, EmptyString, DidKey, DidWeb, DidShort, DidInner, DidUpper}
AccessTimes == {0, 1704067200}

\* the policies and requests validate is called with
ValidatePolicies ==
    { WithExtras(x, eph, pay, hash) :
        x \in PolicyExtras, eph \in Booleans,
        pay \in (0 .. MaxAmount) \cup {Million}, hash \in ProofHashes }
Requests ==
    [requesterDid : Dids, proofReference : ProofReferences,
     accessTime : AccessTimes, paymentAmount : Amounts]

\* the policies the codec is called with
ContextScopes == {EmptyString, ScopeAscii, ScopeLatin, ScopeBomFirst,
                  ScopeBomLast, ScopeAstral}
BasePolicy ==
    MakePolicy(IdA, PkhA, Million, OneDayMs,
               [ephemeralRequired |-> TRUE, proofOfRootAllowed |-> TRUE,
                zkContinuityAllowed |-> FALSE], HashA, ScopeAscii)
CodecPolicies ==
    { [BasePolicy EXCEPT !.identityLinkage = linkage,
                         !.requiredProofHash = hash,
                         !.contextScope = scope] :
        linkage \in Linkages, hash \in {Undefined, EmptyString, HashA},
        scope \in ContextScopes }
    \cup
    { [BasePolicy EXCEPT !.id = id, !.ownerPkh = pkh, !.minPayment = pay,
                         !.maxRetentionMs = ret] :
        id \in {IdA, IdB}, pkh \in {PkhA, PkhB},
        pay \in (0 .. MaxAmount) \cup {24, Million},
        ret \in {255, OneDayMs} }
CodecRequest ==
    [requesterDid |-> DidKey, proofReference |-> RefA,
     accessTime |-> 1704067200, paymentAmount |-> Million]

\* the Data trees the parsers are called with: any datum can sit at the
\* script address, so next to the trees the builders make there are trees
\* with other constructor indices, field counts and kinds of node
GoodLinkage == buildIdentityLinkage(BasePolicy.identityLinkage)
GoodFields == buildPolicyDatum(BasePolicy).fields

BoolNodes == {Constr(0, << >>), Constr(1, << >>), Constr(2, << >>),
              Constr(1, <<IntData(0)>>), IntData(1)}
LinkageTrees ==
    { Constr(i, fs) :
        i \in {0, 1},
        fs \in { <<a, b>> : a \in BoolNodes, b \in BoolNodes }
               \cup { <<a, b, c>> :
                        a \in BoolNodes, b \in BoolNodes, c \in BoolNodes }
               \cup { <<a, b, c, d>> :
                        a \in {Constr(0, << >>), Constr(1, << >>)},
                        b \in BoolNodes, c \in BoolNodes,
                        d \in {Constr(0, << >>), Constr(1, << >>)} } }
    \cup {IntData(0), BytesData(HashA)}

FieldNodes ==
    { IntData(7), BytesData(EmptyString), BytesData(HashB),
      Constr(0, << >>),
      Constr(1, GoodLinkage.fields),
      Constr(0, <<Constr(2, << >>), Constr(0, << >>), Constr(1, << >>)>>),
      Constr(0, <<Constr(1, << >>), Constr(0, << >>)>>),
      Constr(0, <<Constr(1, << >>), IntData(1), Constr(0, << >>)>>) }
PolicyTrees ==
    { Constr(i, [GoodFields EXCEPT ![k] = node]) :
        i \in 0 .. 2, k \in 1 .. 6, node \in FieldNodes }
    \cup
    { Constr(i, fs) :
        i \in 0 .. 2,
        fs \in { GoodFields, << >>, SubSeq(GoodFields, 1, 5),
                 GoodFields \o <<IntData(0)>> } }
    \cup {IntData(0), BytesData(HashA)}

\* the node parseIdentityLinkage gets from parsePolicyDatum: fields[3]
LinkageOf(tree) ==
    IF tree.t = "constr" /\ Len(tree.fields) >= 4 THEN tree.fields[4]
    ELSE GoodLinkage

\* the bounds of the enforcer model: initLucid calls, concurrent validate
\* calls, calls of on-chain operations
MaxInitCalls == 2
MaxCalls == 2
MaxOps == 2
\* compileValidator calls, and the largest maxAttempts of waitForYaci
MaxCompileCalls == 3
MaxAttempts == 4

\* the script of the Aiken blueprint, as fromBlueprint reads it: "abcd" and
\* "00ff" stand for its compiledCode and its hash
BlueprintScript == [cborHex |-> HashB, hash |-> PkhB]

\* the script the tests construct an enforcer with when none can be
\* compiled: { cborHex: "mock_cbor", hash: "mock_hash" }
MockScript ==
    [cborHex |-> <<109, 111, 99, 107, 95, 99, 98, 111, 114>>,
     hash |-> <<109, 111, 99, 107, 95, 104, 97, 115, 104>>]

\* the configurations initLucid is called with: a local devnet, two
\* Blockfrost networks, one without the API key Blockfrost needs and one
\* whose network is none of the four
Configs ==
    { [network |-> "Custom", providerUrl |-> UrlLocal, apiKey |-> Undefined],
      [network |-> "Mainnet", providerUrl |-> UrlMainnet, apiKey |-> ApiKey],
      [network |-> "Preprod", providerUrl |-> UrlPreview,
       apiKey |-> Undefined],
      [network |-> "Testnet", providerUrl |-> UrlLocal, apiKey |-> Undefined] }

\* the longest ledger an operation is run against
MaxChain == 3

\* the enforcer after initLucid on a local devnet
LocalConfig == CHOOSE config \in Configs : config.network = "Custom"
MainnetConfig == CHOOSE config \in Configs : config.network = "Mainnet"
LocalEnforcer ==
    initLucid(NewEnforcer(BlueprintScript), LocalConfig,
              initializeLucid(LocalConfig).value).enforcer

\* the policies and requests buildValidationTx is called with
ChainPolicies == { [BasePolicy EXCEPT !.minPayment = pay] : pay \in {0, 2} }
ChainRequests ==
    { [CodecRequest EXCEPT !.paymentAmount = paid] : paid \in {0, 1, 2} }

\* the datums a UTxO can carry: none, the datum of a policy, bytes that are
\* no CBOR ("ff"), and the CBOR of a tree that is no policy datum
Datums ==
    { Undefined,
      DataTo(buildPolicyDatum([BasePolicy EXCEPT !.minPayment = 0])),
      DataTo(buildPolicyDatum([BasePolicy EXCEPT !.minPayment = 2])),
      <<102, 102>>,
      DataTo(Constr(0, SubSeq(GoodFields, 1, 5))) }

\* what sits on the ledger: UTxOs at the script address of the enforcer with
\* any of the datums, and a policy UTxO at the address of the same script
\* on Mainnet
UtxoKinds ==
    { [address |-> LocalEnforcer.scriptAddress, datum |-> d,
       lovelace |-> MIN_UTXO_LOVELACE] : d \in Datums }
    \cup
    { [address |-> validatorToAddress("Mainnet", LocalEnforcer.validator),
       datum |-> DataTo(buildPolicyDatum(BasePolicy)),
       lovelace |-> MIN_UTXO_LOVELACE] }

\* the UTxO of the k-th transaction
UtxoOf(kind, k) ==
    [txHash |-> k, outputIndex |-> 0, address |-> kind.address,
     datum |-> kind.datum, lovelace |-> kind.lovelace]

\* the ledgers findPolicyUtxos scans, and the ledgers of two UTxOs that
\* buildValidationTx is run against with every policy and request
Ledgers ==
    UNION { { [k \in 1 .. n |-> UtxoOf(kinds[k], k)] :
                kinds \in [1 .. n -> UtxoKinds] } : n \in 0 .. MaxChain }
PairLedgers ==
    { <<UtxoOf(first, 1), UtxoOf(second, 2)>> :
        first \in UtxoKinds, second \in UtxoKinds }

\* the policy and the requests of the concurrent validate calls
ConcurrentPolicies ==
    { [BasePolicy EXCEPT !.identityLinkage.ephemeralRequired = eph,
                         !.minPayment = pay,
                         !.requiredProofHash = HashA] :
        eph \in BOOLEAN, pay \in {0, 2} }
ConcurrentRequests ==
    { [CodecRequest EXCEPT !.requesterDid = did,
                           !.proofReference = ref,
                           !.paymentAmount = paid] :
        did \in {DidKey, DidWeb}, ref \in {Undefined, RefA},
        paid \in {1, 2} }

\* a transaction that neither spends nor pays a script address
ForeignTx == [inputs |-> << >>, outputs |-> << >>]

\* the policyUtxo argument of buildValidationTx: a hash and an index
UtxoRefs == [txHash : {1, 2}, outputIndex : {0, 1}]

(***************************************************************************)
(* The calls.  Every function is synchronous except validate, which has no *)
(* await in its body: each call is one step.                               *)
(***************************************************************************)
Validate ==
    /\ outcome' = Called(validate(policy, request))
    /\ UNCHANGED <<policy, request, datum, parsed, cbor, decoded,
                   linkageData, linkageOut,
                   redeemer, hostVars>>

BuildIdentityLinkage ==
    /\ linkageData' = Called(buildIdentityLinkage(policy.identityLinkage))
    /\ UNCHANGED <<policy, request, outcome, datum, parsed, cbor,
                   decoded, linkageOut,
                   redeemer, hostVars>>

ParseIdentityLinkage ==
    /\ linkageData.called
    /\ linkageOut' = Called(parseIdentityLinkage(linkageData.result))
    /\ UNCHANGED <<policy, request, outcome, datum, parsed, cbor,
                   decoded, linkageData,
                   redeemer, hostVars>>

BuildPolicyDatum ==
    /\ datum' = Called(buildPolicyDatum(policy))
    /\ UNCHANGED <<policy, request, outcome, parsed, cbor, decoded,
                   linkageData, linkageOut,
                   redeemer, hostVars>>

ParsePolicyDatum ==
    /\ datum.called
    /\ parsed' = Called(parsePolicyDatum(datum.result))
    /\ UNCHANGED <<policy, request, outcome, datum, cbor, decoded,
                   linkageData, linkageOut,
                   redeemer, hostVars>>

SerializeDatum ==
    /\ cbor' = Called(serializeDatum(policy))
    /\ UNCHANGED <<policy, request, outcome, datum, parsed, decoded,
                   linkageData, linkageOut,
                   redeemer, hostVars>>

DeserializeDatum ==
    /\ cbor.called
    /\ decoded' = Called(deserializeDatum(cbor.result))
    /\ UNCHANGED <<policy, request, outcome, datum, parsed, cbor,
                   linkageData, linkageOut,
                   redeemer, hostVars>>

BuildAccessRedeemer ==
    /\ redeemer' = Called(buildAccessRedeemer(request))
    /\ UNCHANGED <<policy, request, outcome, datum, parsed, cbor,
                   decoded, linkageData, linkageOut, hostVars>>

\* the i-th call of an operation begins (the calls are numbered in the
\* order they begin)
OpBegins(i) ==
    /\ ops[i].pc = "idle"
    /\ \A j \in 1 .. i - 1 : ops[j].pc # "idle"

\* the i-th call waits for the answer of an SDK call
OpAwaits(i, name, pc) ==
    /\ ops[i].pc = pc
    /\ ops[i].name = name

\* the i-th initLucid call, initLucid(config), begins (the calls are
\* numbered in the order they begin): it runs up to the await of
\* initializeLucid; overlaps tells whether an earlier call is still in flight
InitLucidStart(i, config) ==
    /\ initCalls[i].pc = "idle"
    /\ \A j \in 1 .. i - 1 : initCalls[j].pc # "idle"
    /\ initCalls' = [initCalls EXCEPT ![i] =
           [pc |-> "awaiting", config |-> config,
            lucid |-> initializeLucid(config),
            overlaps |-> \E j \in 1 .. i - 1 :
                            initCalls[j].pc = "awaiting"]]
    /\ UNCHANGED <<codecVars, enforcer, calls, ops, chain, compiler, yaci>>

\* Lucid(provider, network) resolves: the rest of initLucid runs, to its
\* end or to the throw of validatorToAddress; either way the fields it has
\* assigned by then stay assigned
InitLucidResolve(i) ==
    /\ initCalls[i].pc = "awaiting"
    /\ initCalls[i].lucid.ok
    /\ LET Settle(after) ==
               /\ enforcer' = after.enforcer
               /\ initCalls' = [initCalls EXCEPT ![i] =
                      IF after.result.ok
                      THEN [pc |-> "done", config |-> initCalls[i].config,
                            overlaps |-> initCalls[i].overlaps]
                      ELSE [pc |-> "failed",
                            error |-> after.result.error]]
       IN  Settle(initLucid(enforcer, initCalls[i].config,
                            initCalls[i].lucid.value))
    /\ UNCHANGED <<codecVars, calls, ops, chain, compiler, yaci>>

\* initializeLucid rejects (createProvider or mapNetwork threw, or the
\* provider could not be reached): initLucid throws at its await
InitLucidReject(i) ==
    /\ initCalls[i].pc = "awaiting"
    /\ initCalls' = [initCalls EXCEPT ![i] =
           [pc |-> "failed",
            error |-> IF initCalls[i].lucid.ok THEN "Lucid"
                      ELSE initCalls[i].lucid.error]]
    /\ UNCHANGED <<codecVars, enforcer, calls, ops, chain, compiler, yaci>>

\* the i-th of the concurrent validate calls runs
ValidateCall(i) ==
    /\ ~calls[i].result.called
    /\ calls' = [calls EXCEPT ![i].result =
                    Called(validate(policy, calls[i].request))]
    /\ UNCHANGED <<codecVars, enforcer, initCalls, ops, chain, compiler, yaci>>

\* the i-th call is getScriptAddress(), which has no await
GetScriptAddress(i) ==
    /\ OpBegins(i)
    /\ ops' = [ops EXCEPT ![i] =
                  getScriptAddress(enforcer) @@ [name |-> "getScriptAddress"]]
    /\ UNCHANGED <<codecVars, enforcer, initCalls, calls, chain, compiler,
                   yaci>>

\* the i-th call is createPolicyUtxo(policy)
CreatePolicyUtxoStart(i) ==
    /\ OpBegins(i)
    /\ ops' = [ops EXCEPT ![i] =
                  createPolicyUtxoStart(enforcer, policy)
                      @@ [name |-> "createPolicyUtxo"]]
    /\ UNCHANGED <<codecVars, enforcer, initCalls, calls, chain, compiler,
                   yaci>>

\* complete() of the transaction of createPolicyUtxo settles
CreatePolicyUtxoCompleted(i) ==
    /\ OpAwaits(i, "createPolicyUtxo", "complete")
    /\ \E answer \in {"ok", "completeFails"} :
           ops' = [ops EXCEPT ![i] =
                      createPolicyUtxoCompleted(ops[i], answer) @@ ops[i]]
    /\ UNCHANGED <<codecVars, enforcer, initCalls, calls, chain, compiler,
                   yaci>>

\* the signing of the transaction of createPolicyUtxo settles
CreatePolicyUtxoSigned(i) ==
    /\ OpAwaits(i, "createPolicyUtxo", "sign")
    /\ \E answer \in {"ok", "signFails"} :
           ops' = [ops EXCEPT ![i] =
                      createPolicyUtxoSigned(ops[i], answer) @@ ops[i]]
    /\ UNCHANGED <<codecVars, enforcer, initCalls, calls, chain, compiler,
                   yaci>>

\* submit() of createPolicyUtxo settles: the ledger has taken the
\* transaction, or it has not
CreatePolicyUtxoSubmitted(i) ==
    /\ OpAwaits(i, "createPolicyUtxo", "submit")
    /\ \E answer \in {"ok", "submitFails"} :
           /\ ops' = [ops EXCEPT ![i] =
                         createPolicyUtxoSubmitted(ops[i], answer,
                             NextTxHash(chain, ops)) @@ ops[i]]
           /\ chain' = IF answer = "ok"
                       THEN Submitted(chain, ops[i].tx,
                                      NextTxHash(chain, ops))
                       ELSE chain
    /\ UNCHANGED <<codecVars, enforcer, initCalls, calls, compiler, yaci>>

\* the i-th call is findPolicyUtxos()
FindPolicyUtxosStart(i) ==
    /\ OpBegins(i)
    /\ ops' = [ops EXCEPT ![i] =
                  findPolicyUtxosStart(enforcer)
                      @@ [name |-> "findPolicyUtxos"]]
    /\ UNCHANGED <<codecVars, enforcer, initCalls, calls, chain, compiler,
                   yaci>>

\* the chain query of findPolicyUtxos settles
FindPolicyUtxosResume(i) ==
    /\ OpAwaits(i, "findPolicyUtxos", "utxosAt")
    /\ \E answer \in {"ok", "queryFails"} :
           ops' = [ops EXCEPT ![i] =
                      findPolicyUtxosResume(ops[i], chain, answer) @@ ops[i]]
    /\ UNCHANGED <<codecVars, enforcer, initCalls, calls, chain, compiler,
                   yaci>>

\* the i-th call is buildValidationTx(policy, policyUtxo, request)
BuildValidationTxStart(i, policyUtxo) ==
    /\ OpBegins(i)
    /\ ops' = [ops EXCEPT ![i] =
                  buildValidationTxStart(enforcer, policy, policyUtxo,
                                         request)
                      @@ [name |-> "buildValidationTx",
                          policyUtxo |-> policyUtxo]]
    /\ UNCHANGED <<codecVars, enforcer, initCalls, calls, chain, compiler,
                   yaci>>

\* the chain query of buildValidationTx settles
BuildValidationTxResume(i) ==
    /\ OpAwaits(i, "buildValidationTx", "utxosAt")
    /\ \E answer \in {"ok", "queryFails"} :
           ops' = [ops EXCEPT ![i] =
                      buildValidationTxResume(enforcer, chain, ops[i], answer)
                          @@ ops[i]]
    /\ UNCHANGED <<codecVars, enforcer, initCalls, calls, chain, compiler,
                   yaci>>

\* complete() of the transaction of buildValidationTx settles
BuildValidationTxCompleted(i) ==
    /\ OpAwaits(i, "buildValidationTx", "complete")
    /\ \E answer \in {"ok", "completeFails"} :
           ops' = [ops EXCEPT ![i] =
                      buildValidationTxCompleted(ops[i], answer) @@ ops[i]]
    /\ UNCHANGED <<codecVars, enforcer, initCalls, calls, chain, compiler,
                   yaci>>

\* the transactions signAndSubmitValidationTx is called with: those that
\* buildValidationTx calls have returned, and one from elsewhere
UnsignedTxs ==
    {ForeignTx} \cup
    { ops[j].result.value.txCbor :
        j \in { k \in DOMAIN ops : /\ ops[k].pc = "done"
                                   /\ ops[k].name = "buildValidationTx"
                                   /\ ops[k].result.ok } }

\* the i-th call is signAndSubmitValidationTx(unsignedTxCbor)
SignAndSubmitValidationTxStart(i) ==
    /\ OpBegins(i)
    /\ \E unsignedTxCbor \in UnsignedTxs :
           ops' = [ops EXCEPT ![i] =
                      signAndSubmitValidationTxStart(enforcer, unsignedTxCbor)
                          @@ [name |-> "signAndSubmitValidationTx"]]
    /\ UNCHANGED <<codecVars, enforcer, initCalls, calls, chain, compiler,
                   yaci>>

\* the signing of signAndSubmitValidationTx settles
SignAndSubmitValidationTxSigned(i) ==
    /\ OpAwaits(i, "signAndSubmitValidationTx", "sign")
    /\ \E answer \in {"ok", "signFails"} :
           ops' = [ops EXCEPT ![i] =
                      signAndSubmitValidationTxSigned(ops[i], answer)
                          @@ ops[i]]
    /\ UNCHANGED <<codecVars, enforcer, initCalls, calls, chain, compiler,
                   yaci>>

\* submit() of signAndSubmitValidationTx settles: the ledger takes a
\* transaction only if what it spends is unspent
SignAndSubmitValidationTxSubmitted(i) ==
    /\ OpAwaits(i, "signAndSubmitValidationTx", "submit")
    /\ \E answer \in {"ok", "submitFails"} :
           /\ answer = "ok" => Spendable(chain, ops[i].tx)
           /\ ops' = [ops EXCEPT ![i] =
                         signAndSubmitValidationTxSubmitted(ops[i], answer,
                             NextTxHash(chain, ops)) @@ ops[i]]
           /\ chain' = IF answer = "ok"
                       THEN Submitted(chain, ops[i].tx,
                                      NextTxHash(chain, ops))
                       ELSE chain
    /\ UNCHANGED <<codecVars, enforcer, initCalls, calls, compiler, yaci>>

\* the i-th call of compileValidator, getCompiledScript or
\* SPALEnforcer.create begins (the calls are numbered in the order they
\* begin): compileValidator() runs up to its await; the promise of a wrapper
\* settles after the one of compileValidator()
CompileStart(i, via) ==
    /\ compiler.calls[i].pc = "idle"
    /\ \A j \in 1 .. i - 1 : compiler.calls[j].pc # "idle"
    /\ LET started == compileValidatorStart(compiler)
       IN  compiler' = [compiler EXCEPT !.calls[i] =
               IF started.pc = "done" /\ via # "compileValidator"
               THEN [pc |-> "settling", via |-> via, hit |-> TRUE,
                     settled |-> started.result]
               ELSE started @@ [via |-> via]]
    /\ UNCHANGED <<codecVars, enforcer, initCalls, calls, ops, chain, yaci>>

\* the import of the compiler settles and compileValidator() runs to its end
CompileResume(i) ==
    /\ compiler.calls[i].pc = "importing"
    /\ \E answer \in {"ok", "import", "compile"} :
           LET after == compileValidatorResume(compiler, answer)
               via == compiler.calls[i].via
           IN  compiler' =
                   [cachedScript |-> after.cachedScript,
                    runs |-> after.runs,
                    calls |-> [compiler.calls EXCEPT ![i] =
                        IF via = "compileValidator"
                        THEN [pc |-> "done", via |-> via, hit |-> FALSE,
                              result |-> after.result]
                        ELSE [pc |-> "settling", via |-> via, hit |-> FALSE,
                              settled |-> after.result]]]
    /\ UNCHANGED <<codecVars, enforcer, initCalls, calls, ops, chain, yaci>>

\* the promise of getCompiledScript() or SPALEnforcer.create() settles
CompileSettle(i) ==
    /\ compiler.calls[i].pc = "settling"
    /\ compiler' = [compiler EXCEPT !.calls[i] =
           [pc |-> "done", via |-> compiler.calls[i].via,
            hit |-> compiler.calls[i].hit,
            result |-> IF compiler.calls[i].via = "create"
                       THEN create(compiler.calls[i].settled)
                       ELSE getCompiledScript(compiler.calls[i].settled)]]
    /\ UNCHANGED <<codecVars, enforcer, initCalls, calls, ops, chain, yaci>>

WaitForYaci(maxAttempts) ==
    /\ yaci.pc = "idle"
    /\ yaci' = waitForYaci(maxAttempts)
    /\ UNCHANGED <<codecVars, enforcer, initCalls, calls, ops, chain, compiler>>

\* the fetch of a probe settles
YaciFetchSettles ==
    /\ yaci.pc = "fetching"
    /\ \E answer \in {"ok", "notOk", "error"} :
           yaci' = IF answer = "ok" THEN [yaci EXCEPT !.pc = "reading"]
                   ELSE AfterProbe(yaci, answer)
    /\ UNCHANGED <<codecVars, enforcer, initCalls, calls, ops, chain, compiler>>

\* response.json() of an ok response settles
YaciBodySettles ==
    /\ yaci.pc = "reading"
    /\ \E answer \in {"ok", "badBody"} :
           yaci' = IF answer = "ok"
                   THEN [yaci EXCEPT !.answers = Append(@, "ok"),
                                     !.pc = "done",
                                     !.result = Returned("undefined")]
                   ELSE AfterProbe(yaci, answer)
    /\ UNCHANGED <<codecVars, enforcer, initCalls, calls, ops, chain, compiler>>

\* the sleep ends and the next iteration probes
YaciWake ==
    /\ yaci.pc = "sleeping"
    /\ yaci' = [yaci EXCEPT !.pc = "fetching", !.i = @ + 1,
                            !.probes = @ + 1]
    /\ UNCHANGED <<codecVars, enforcer, initCalls, calls, ops, chain, compiler>>

\* before any call on the enforcer, the compiler or the deploy script
HostIdle ==
    /\ enforcer = NewEnforcer(BlueprintScript)
    /\ initCalls = [i \in 1 .. MaxInitCalls |-> [pc |-> "idle"]]
    /\ calls = [i \in 1 .. MaxCalls |->
                   [request |-> CodecRequest, result |-> NotCalled]]
    /\ ops = [i \in 1 .. MaxOps |-> [pc |-> "idle"]]
    /\ chain = << >>
    /\ compiler = [cachedScript |-> Null, runs |-> 0,
                   calls |-> [i \in 1 .. MaxCompileCalls |-> [pc |-> "idle"]]]
    /\ yaci = [pc |-> "idle"]

NothingCalled ==
    /\ outcome = NotCalled
    /\ datum = NotCalled
    /\ parsed = NotCalled
    /\ cbor = NotCalled
    /\ decoded = NotCalled
    /\ linkageData = NotCalled
    /\ linkageOut = NotCalled
    /\ redeemer = NotCalled

\* the codec, with validate calls in between
Init ==
    /\ policy \in CodecPolicies
    /\ request = CodecRequest
    /\ NothingCalled
    /\ HostIdle

Next ==
    \/ Validate
    \/ BuildIdentityLinkage
    \/ ParseIdentityLinkage
    \/ BuildPolicyDatum
    \/ ParsePolicyDatum
    \/ SerializeDatum
    \/ DeserializeDatum

Spec == Init /\ [][Next]_vars

\* the validator alone, over every policy and request
InitValidate ==
    /\ policy \in ValidatePolicies
    /\ request \in Requests
    /\ NothingCalled
    /\ HostIdle

NextValidate == Validate

SpecValidate == InitValidate /\ [][NextValidate]_vars

\* the parsers, over the trees a datum at the script address can hold
InitDecode ==
    /\ policy = BasePolicy
    /\ request = CodecRequest
    /\ \/ /\ datum \in { Called(tree) : tree \in PolicyTrees }
          /\ linkageData = Called(LinkageOf(datum.result))
       \/ /\ datum = Called(Constr(0, GoodFields))
          /\ linkageData \in { Called(tree) : tree \in LinkageTrees }
    /\ cbor = Called(DataTo(datum.result))
    /\ outcome = NotCalled
    /\ parsed = NotCalled
    /\ decoded = NotCalled
    /\ linkageOut = NotCalled
    /\ redeemer = NotCalled
    /\ HostIdle

NextDecode ==
    \/ ParseIdentityLinkage
    \/ ParsePolicyDatum
    \/ DeserializeDatum

SpecDecode == InitDecode /\ [][NextDecode]_vars

\* the redeemer builder, over every request, next to validate
InitRedeemer ==
    /\ policy = BasePolicy
    /\ request \in Requests
    /\ NothingCalled
    /\ HostIdle

NextRedeemer ==
    \/ BuildAccessRedeemer
    \/ Validate

SpecRedeemer == InitRedeemer /\ [][NextRedeemer]_vars

(***************************************************************************)
(* What the claims speak of.                                               *)
(***************************************************************************)
\* the request carries a DID, as its type says
HasDid(r) == r.requesterDid # Undefined

\* an absent or zero-length string
IsEmptyValue(s) == s = Undefined \/ s = EmptyString

IdentityOk(p, r) ==
    \/ ~p.identityLinkage.ephemeralRequired
    \/ StartsWith(r.requesterDid, EphemeralPrefix)
PaymentOk(p, r) == p.minPayment = 0 \/ r.paymentAmount >= p.minPayment
ProofOk(p, r) ==
    IsEmptyValue(p.requiredProofHash) \/ ~IsEmptyValue(r.proofReference)

\* the last validate call returned {valid: true} and nothing else
Accepted == outcome.result.ok /\ outcome.result.value = [valid |-> TRUE]
\* the last validate call returned {valid: false, error: reason}
RejectedWith(reason) ==
    /\ outcome.result.ok
    /\ outcome.result.value = [valid |-> FALSE, error |-> reason]
PaymentErrors == { PaymentError(a, b) : a \in Amounts, b \in Amounts }

\* C1: validate returns valid=true with no reason exactly when the identity,
\* payment and proof conditions all hold, and valid=false with a reason in
\* every other case.
C1_ValidIffAllChecksHold ==
    (outcome.called /\ HasDid(request)) =>
        /\ outcome.result.ok
        /\ IF /\ IdentityOk(policy, request)
              /\ PaymentOk(policy, request)
              /\ ProofOk(policy, request)
           THEN outcome.result.value = [valid |-> TRUE]
           ELSE /\ outcome.result.value.valid = FALSE
                /\ DOMAIN outcome.result.value = {"valid", "error"}

C1_Witness ==
    /\ outcome.called
    /\ policy.identityLinkage.ephemeralRequired
    /\ policy.minPayment = Million
    /\ policy.requiredProofHash = HashA
    /\ request.requesterDid = DidKey
    /\ request.paymentAmount = Million
    /\ request.proofReference = RefA
    /\ Accepted

\* C2: the checks run in the order identity, payment, proof and stop at the
\* first failure: a request that violates several checks is rejected with
\* the reason of the earliest violated one.
C2_EarliestReasonReported ==
    (outcome.called /\ HasDid(request)) =>
        LET noId == ~IdentityOk(policy, request)
            noPay == ~PaymentOk(policy, request)
            noProof == ~ProofOk(policy, request)
        IN  /\ (noId /\ (noPay \/ noProof)) => RejectedWith(EphemeralError)
            /\ (~noId /\ noPay /\ noProof) =>
                   RejectedWith(PaymentError(policy.minPayment,
                                             request.paymentAmount))

C2_Witness ==
    /\ outcome.called
    /\ HasDid(request)
    /\ ~IdentityOk(policy, request)
    /\ ~PaymentOk(policy, request)
    /\ ~ProofOk(policy, request)
    /\ RejectedWith(EphemeralError)

\* C3: when the policy requires an ephemeral identity and the requester DID
\* does not start with the ephemeral prefix, validate rejects with the
\* ephemeral-identity reason, whatever the payment and proof fields are.
C3_NonEphemeralRejected ==
    ( /\ outcome.called
      /\ HasDid(request)
      /\ policy.identityLinkage.ephemeralRequired
      /\ ~StartsWith(request.requesterDid, EphemeralPrefix) ) =>
        RejectedWith(EphemeralError)

C3_Witness ==
    /\ outcome.called
    /\ policy.identityLinkage.ephemeralRequired
    /\ request.requesterDid = DidInner
    /\ PaymentOk(policy, request)
    /\ ProofOk(policy, request)
    /\ policy.minPayment = Million
    /\ policy.requiredProofHash = HashA
    /\ RejectedWith(EphemeralError)

\* C4: when the identity check passes and minPayment > 0, a payment below
\* minPayment is rejected with a reason carrying the required and the
\* supplied amount, and a payment of minPayment or more is never rejected on
\* payment grounds.
C4_PaymentThreshold ==
    ( /\ outcome.called
      /\ HasDid(request)
      /\ IdentityOk(policy, request)
      /\ policy.minPayment > 0 ) =>
        IF request.paymentAmount < policy.minPayment
        THEN RejectedWith(PaymentError(policy.minPayment,
                                       request.paymentAmount))
        ELSE /\ outcome.result.ok
             /\ \/ outcome.result.value.valid
                \/ outcome.result.value.error \notin PaymentErrors

C4_Witness ==
    /\ outcome.called
    /\ IdentityOk(policy, request)
    /\ policy.minPayment = Million
    /\ request.paymentAmount = 500000
    /\ RejectedWith("Insufficient payment: required 1000000, got 500000")

\* C5: when the identity and payment checks pass and a proof hash is
\* required, an empty proof reference is rejected with the proof-reference
\* reason and every non-empty proof reference is accepted.
C5_ProofPresence ==
    ( /\ outcome.called
      /\ HasDid(request)
      /\ IdentityOk(policy, request)
      /\ PaymentOk(policy, request)
      /\ ~IsEmptyValue(policy.requiredProofHash) ) =>
        IF IsEmptyValue(request.proofReference)
        THEN RejectedWith(ProofError)
        ELSE Accepted

C5_Witness ==
    /\ outcome.called
    /\ HasDid(request)
    /\ IdentityOk(policy, request)
    /\ PaymentOk(policy, request)
    /\ policy.requiredProofHash = HashA
    /\ request.proofReference = EmptyString
    /\ RejectedWith(ProofError)

\* the policies and requests that differ from p and r only in what validate
\* is said not to read
PolicyVariants(p) ==
    { WithExtras(x, p.identityLinkage.ephemeralRequired, p.minPayment, hash) :
        x \in PolicyExtras,
        hash \in { h \in ProofHashes :
                     IsEmptyValue(h) = IsEmptyValue(p.requiredProofHash) } }
RequestVariants(r) ==
    { [r EXCEPT !.accessTime = time, !.proofReference = ref] :
        time \in AccessTimes,
        ref \in { f \in ProofReferences :
                    IsEmptyValue(f) = IsEmptyValue(r.proofReference) } }

\* C6: the valid flag does not depend on the owner key hash, the retention
\* window, the access time, the policy id, the context scope, the
\* proofOfRootAllowed and zkContinuityAllowed flags, or on the content
\* (beyond emptiness) of requiredProofHash and proofReference.
C6_IrrelevantFieldsIgnored ==
    (outcome.called /\ HasDid(request)) =>
        \A q \in PolicyVariants(policy), s \in RequestVariants(request) :
            /\ outcome.result.ok
            /\ validate(q, s).ok
            /\ validate(q, s).value.valid = outcome.result.value.valid

C6_Witness ==
    /\ outcome.called
    /\ policy.id = IdB
    /\ policy.ownerPkh = PkhB
    /\ policy.maxRetentionMs = 0
    /\ policy.contextScope = ScopeLatin
    /\ ~policy.identityLinkage.proofOfRootAllowed
    /\ policy.identityLinkage.zkContinuityAllowed
    /\ policy.requiredProofHash = HashB
    /\ request.proofReference = RefB
    /\ request.accessTime = 1704067200
    /\ Accepted

\* C7: validate never throws for a well-typed policy and request: a
\* rejection is the returned value {valid: false, error}, never an exception.
C7_RejectionIsReturned ==
    (outcome.called /\ HasDid(request)) =>
        /\ outcome.result.ok
        /\ "valid" \in DOMAIN outcome.result.value
        /\ ~outcome.result.value.valid =>
               "error" \in DOMAIN outcome.result.value

C7_Witness ==
    /\ outcome.called
    /\ HasDid(request)
    /\ ~PaymentOk(policy, request)
    /\ outcome.result.ok
    /\ ~outcome.result.value.valid

\* a policy as its type says: every string field holds a string
ValidPolicy(p) == p.requiredProofHash # Undefined

\* a decoded policy equals p in every field other than id
SameButId(result, p) ==
    /\ result.ok
    /\ [result.value EXCEPT !.id = p.id] = p

\* C8: round trip: decoding an encoded valid policy never fails and gives
\* the policy back in every field other than id, through the tree
\* (parsePolicyDatum of buildPolicyDatum) and through the bytes
\* (deserializeDatum of serializeDatum); parseIdentityLinkage of
\* buildIdentityLinkage gives every linkage back.
C8_RoundTrip ==
    /\ (parsed.called /\ ValidPolicy(policy)) =>
           SameButId(parsed.result, policy)
    /\ (decoded.called /\ ValidPolicy(policy)) =>
           SameButId(decoded.result, policy)
    /\ linkageOut.called =>
           /\ linkageOut.result.ok
           /\ linkageOut.result.value = policy.identityLinkage

PolicyIds == {EmptyString, IdA, IdB}

\* C9: the policy id never takes part in the encoded form: policies that
\* differ only in id encode to the same tree and the same bytes, and a
\* decoded policy carries the placeholder id "" whatever id was encoded.
C9_IdNotEncoded ==
    /\ datum.called =>
           \A i \in PolicyIds :
               buildPolicyDatum([policy EXCEPT !.id = i]) = datum.result
    /\ cbor.called =>
           \A i \in PolicyIds :
               serializeDatum([policy EXCEPT !.id = i]) = cbor.result
    /\ (parsed.called /\ parsed.result.ok) =>
           parsed.result.value.id = EmptyString
    /\ (decoded.called /\ decoded.result.ok) =>
           decoded.result.value.id = EmptyString

C9_Witness ==
    /\ policy.id = IdB
    /\ datum.called
    /\ cbor.called
    /\ parsed.called
    /\ decoded.called
    /\ decoded.result.ok
    /\ decoded.result.value.id = EmptyString

\* the output of serializeDatum for every policy of the model
EncodedPolicies == [q \in CodecPolicies |-> serializeDatum(q)]

\* what of a policy reaches the encoded form: every field other than id,
\* with an absent requiredProofHash read as the empty one
EncodedFields(p) ==
    [p EXCEPT !.id = EmptyString, !.requiredProofHash = OrEmpty(@)]

\* C11 as stated: injectivity: two policies that differ in at least one
\* field never have the same serializeDatum output.
C11_Injective ==
    cbor.called =>
        \A q \in CodecPolicies :
            q # policy => EncodedPolicies[q] # cbor.result

\* C11 amended: two policies that differ in at least one field other than
\* id (an absent and an empty requiredProofHash counting as the same value)
\* never have the same serializeDatum output; in particular policies that
\* differ only in minPayment, or only in contextScope, encode differently.
C11_InjectiveOnEncodedFields ==
    cbor.called =>
        \A q \in CodecPolicies :
            EncodedFields(q) # EncodedFields(policy) =>
                EncodedPolicies[q] # cbor.result

C11_Witness ==
    /\ policy = BasePolicy
    /\ cbor.called
    /\ [BasePolicy EXCEPT !.minPayment = 1] \in CodecPolicies
    /\ [BasePolicy EXCEPT !.contextScope = ScopeLatin] \in CodecPolicies
    /\ EncodedPolicies[[BasePolicy EXCEPT !.minPayment = 1]] # cbor.result
    /\ EncodedPolicies[[BasePolicy EXCEPT !.contextScope = ScopeLatin]]
           # cbor.result

\* a boolean leaf: a constructor without fields whose index is 1 for true
\* and 0 for false
IsBoolLeaf(node, b) ==
    /\ node.t = "constr"
    /\ node.fields = << >>
    /\ node.index = (IF b THEN 1 ELSE 0)

\* the node of an identity linkage: constructor 0 over the three boolean
\* leaves in the order ephemeralRequired, proofOfRootAllowed,
\* zkContinuityAllowed
IsLinkageNode(node, linkage) ==
    /\ node.t = "constr"
    /\ node.index = 0
    /\ Len(node.fields) = 3
    /\ IsBoolLeaf(node.fields[1], linkage.ephemeralRequired)
    /\ IsBoolLeaf(node.fields[2], linkage.proofOfRootAllowed)
    /\ IsBoolLeaf(node.fields[3], linkage.zkContinuityAllowed)

\* C12: buildIdentityLinkage returns constructor 0 over exactly three
\* fields, the boolean leaves of ephemeralRequired, proofOfRootAllowed and
\* zkContinuityAllowed in this order, false being Constr(0, []) and true
\* Constr(1, []); no other boolean node is produced.
C12_LinkageEncoding ==
    linkageData.called =>
        /\ IsLinkageNode(linkageData.result, policy.identityLinkage)
        /\ \A i \in 1 .. 3 :
               linkageData.result.fields[i] \in
                   { [t |-> "constr", index |-> 0, fields |-> << >>],
                     [t |-> "constr", index |-> 1, fields |-> << >>] }

C12_Witness ==
    /\ linkageData.called
    /\ policy.identityLinkage.ephemeralRequired
    /\ ~policy.identityLinkage.proofOfRootAllowed
    /\ ~policy.identityLinkage.zkContinuityAllowed
    /\ linkageData.result.fields[1].index = 1
    /\ linkageData.result.fields[2].index = 0
    /\ linkageData.result.fields[3].index = 0

\* "612f62", "c3a92e78" and "f09f9880": the UTF-8 bytes of "a/b", of
\* U+00E9 "." "x" and of U+1F600, in hex
HexOfScopeAscii == <<54, 49, 50, 102, 54, 50>>
HexOfScopeLatin == <<99, 51, 97, 57, 50, 101, 55, 56>>
HexOfScopeAstral == <<102, 48, 57, 102, 57, 56, 56, 48>>

\* C14: buildPolicyDatum returns constructor 0 over exactly six fields in
\* this order: ownerPkh as the byte string it is, minPayment and
\* maxRetentionMs as the integers they are, the linkage node, the
\* requiredProofHash bytes (none when it is absent or empty) and the UTF-8
\* bytes of contextScope.
C14_PolicyDatumLayout ==
    datum.called =>
        LET d == datum.result
            f == datum.result.fields
        IN  /\ d.t = "constr"
            /\ d.index = 0
            /\ Len(f) = 6
            /\ f[1] = [t |-> "bytes", hex |-> policy.ownerPkh]
            /\ f[2] = [t |-> "int", n |-> policy.minPayment]
            /\ f[3] = [t |-> "int", n |-> policy.maxRetentionMs]
            /\ IsLinkageNode(f[4], policy.identityLinkage)
            /\ f[5].t = "bytes"
            /\ f[5].hex = (IF policy.requiredProofHash \in
                                 {Undefined, EmptyString}
                           THEN << >> ELSE policy.requiredProofHash)
            /\ f[6].t = "bytes"
            /\ HexToBytes(f[6].hex) = TextEncode(policy.contextScope)
            /\ policy.contextScope = ScopeAscii => f[6].hex = HexOfScopeAscii
            /\ policy.contextScope = ScopeLatin => f[6].hex = HexOfScopeLatin
            /\ policy.contextScope = ScopeAstral =>
                   f[6].hex = HexOfScopeAstral

C14_Witness ==
    /\ datum.called
    /\ policy.requiredProofHash = Undefined
    /\ policy.contextScope = ScopeLatin
    /\ policy.identityLinkage.zkContinuityAllowed
    /\ Len(datum.result.fields) = 6
    /\ datum.result.fields[5].hex = << >>
    /\ datum.result.fields[6].hex = HexOfScopeLatin

\* "6469643a7765623a6578": the UTF-8 bytes of "did:web:ex" in hex
HexOfDidWeb == <<54, 52, 54, 57, 54, 52, 51, 97, 55, 55, 54, 53, 54, 50, 51,
                 97, 54, 53, 55, 56>>

\* C15: buildAccessRedeemer returns constructor 0 over exactly four fields
\* in this order: the UTF-8 bytes of requesterDid, the proofReference bytes
\* (none when it is absent or empty), accessTime as an integer and
\* paymentAmount as the integer it is.
C15_RedeemerLayout ==
    (redeemer.called /\ request.requesterDid # Undefined) =>
        LET d == redeemer.result
            f == redeemer.result.fields
        IN  /\ d.t = "constr"
            /\ d.index = 0
            /\ Len(f) = 4
            /\ f[1].t = "bytes"
            /\ HexToBytes(f[1].hex) = TextEncode(request.requesterDid)
            /\ request.requesterDid = DidWeb => f[1].hex = HexOfDidWeb
            /\ f[2].t = "bytes"
            /\ f[2].hex = (IF request.proofReference \in
                                 {Undefined, EmptyString}
                           THEN << >> ELSE request.proofReference)
            /\ f[3] = [t |-> "int", n |-> request.accessTime]
            /\ f[4] = [t |-> "int", n |-> request.paymentAmount]

C15_Witness ==
    /\ redeemer.called
    /\ request.requesterDid = DidWeb
    /\ request.proofReference = Undefined
    /\ request.accessTime = 1704067200
    /\ request.paymentAmount = 500000
    /\ Len(redeemer.result.fields) = 4
    /\ redeemer.result.fields[1].hex = HexOfDidWeb
    /\ redeemer.result.fields[2].hex = << >>
    /\ redeemer.result.fields[3].n = 1704067200
    /\ redeemer.result.fields[4].n = 500000

\* a constructor node with the given number of fields
HasFieldCount(node, n) == node.t = "constr" /\ Len(node.fields) = n

\* C13: the boolean-leaf decoder of parseIdentityLinkage rejects every
\* constructor whose index is neither 0 nor 1: a three-field linkage tree
\* holding such a leaf is never decoded to a linkage.
C13_InvalidBooleanRejected ==
    ( /\ linkageOut.called
      /\ HasFieldCount(linkageData.result, 3)
      /\ \E i \in 1 .. 3 :
             /\ linkageData.result.fields[i].t = "constr"
             /\ linkageData.result.fields[i].index \notin {0, 1} )
    => ~linkageOut.result.ok

\* a policy tree the field-count rule forbids: a constructor whose field
\* count is not 6, or whose linkage node is a constructor whose field count
\* is not 3
WrongPolicyFieldCount(tree) ==
    /\ tree.t = "constr"
    /\ \/ Len(tree.fields) # 6
       \/ /\ tree.fields[4].t = "constr"
          /\ Len(tree.fields[4].fields) # 3

\* C16: parseIdentityLinkage fails for every constructor tree whose field
\* count is not 3; parsePolicyDatum, from the tree and from the bytes,
\* fails for every constructor tree whose field count is not 6 and for
\* every tree whose linkage node has a field count other than 3: no such
\* tree decodes to a value.
C16_FieldCountEnforced ==
    /\ ( /\ linkageOut.called
         /\ linkageData.result.t = "constr"
         /\ Len(linkageData.result.fields) # 3 )
       => ~linkageOut.result.ok
    /\ (parsed.called /\ WrongPolicyFieldCount(datum.result))
       => ~parsed.result.ok
    /\ (decoded.called /\ WrongPolicyFieldCount(datum.result))
       => ~decoded.result.ok

C16_Witness ==
    /\ HasFieldCount(datum.result, 6)
    /\ HasFieldCount(datum.result.fields[4], 2)
    /\ linkageData.result = datum.result.fields[4]
    /\ linkageOut.called
    /\ ~linkageOut.result.ok
    /\ parsed.called
    /\ ~parsed.result.ok
    /\ decoded.called
    /\ ~decoded.result.ok

\* C17: decoding fails whenever the tree does not carry the expected
\* constructor index: parsePolicyDatum rejects every root constructor whose
\* index is not 0 and parseIdentityLinkage every linkage constructor whose
\* index is not 0, also when the field count is right.
C17_ConstructorIndexEnforced ==
    /\ ( /\ parsed.called
         /\ datum.result.t = "constr"
         /\ datum.result.index # 0 )
       => ~parsed.result.ok
    /\ ( /\ linkageOut.called
         /\ linkageData.result.t = "constr"
         /\ linkageData.result.index # 0 )
       => ~linkageOut.result.ok

\* the six fields of a policy tree have the kinds of node of a PolicyDatum
WellTypedFields(f) ==
    /\ f[1].t = "bytes"
    /\ f[2].t = "int"
    /\ f[3].t = "int"
    /\ f[4].t = "constr"
    /\ f[5].t = "bytes"
    /\ f[6].t = "bytes"

\* C18: parsePolicyDatum returns a policy for a six-field tree only if
\* ownerPkh, requiredProofHash and contextScope are byte strings,
\* minPayment and maxRetentionMs integers and the linkage a constructor;
\* any other six-field tree makes it fail.
C18_FieldKindsEnforced ==
    (parsed.called /\ HasFieldCount(datum.result, 6) /\ parsed.result.ok)
        => WellTypedFields(datum.result.fields)

\* the number of UTF-8 bytes of a well-formed string, counted per code unit:
\* 1 below U+0080, 2 below U+0800, 2 for each half of a surrogate pair and
\* 3 for any other
Utf8Length(str) ==
    LET unit(c) == IF c < 128 THEN 1
                   ELSE IF c < 2048 \/ IsHighSurrogate(c) \/ IsLowSurrogate(c)
                   THEN 2 ELSE 3
        sum[i \in 0 .. Len(str)] ==
            IF i = 0 THEN 0 ELSE sum[i - 1] + unit(str[i])
    IN  sum[Len(str)]

LowerHexDigits == (48 .. 57) \cup (97 .. 102)

\* C19: for every string s, stringToHex(s) has exactly two characters per
\* UTF-8 byte of s, all of them digits or lowercase a-f with no prefix or
\* separator, and hexToString(stringToHex(s)) is s (here s is the
\* contextScope the datum builder encodes and the parser decodes).
C19_TextHexRoundTrip ==
    /\ datum.called =>
           LET hex == datum.result.fields[6].hex
           IN  /\ Len(hex) = 2 * Utf8Length(policy.contextScope)
               /\ \A i \in 1 .. Len(hex) : hex[i] \in LowerHexDigits
    /\ (parsed.called /\ parsed.result.ok) =>
           parsed.result.value.contextScope = policy.contextScope

\* what the on-chain script decides for the policy and the request: main
\* over the Policy struct with the owner, the retention limit and the
\* payment of the policy, a redeemer within the retention limit, and the
\* transaction buildValidationTx builds for them (signed by the owner, with
\* its payment output).  Of ephemeral-DID shape, payment threshold and proof
\* presence, main has the payment check alone.
OnChainChecks(p, r) ==
    main([owner |-> p.ownerPkh, max_retention |-> p.maxRetentionMs,
          derivatives_forbidden |-> FALSE, required_payment |-> p.minPayment],
         [requester_did_hash |-> << >>, context_scope_hash |-> << >>,
          proof_hash |-> << >>, retention_timestamp |-> 0],
         [signers |-> {p.ownerPkh},
          outputs |-> PaymentOutputs(LocalEnforcer, p, r)])

\* C20: validate is equivalent to the on-chain predicate restricted to the
\* checks validate performs: for every policy and request, validate accepts
\* exactly when the corresponding checks of the on-chain script accept
\* (neither a false accept nor a false reject).
C20_MirrorsOnChain ==
    (outcome.called /\ HasDid(request)) =>
        (Accepted <=> OnChainChecks(policy, request))

(***************************************************************************)
(* The enforcer: initLucid calls, overlapping or not, and the on-chain      *)
(* operations.                                                              *)
(***************************************************************************)
\* a new enforcer, made of the blueprint script or of the mock script of
\* the tests, on a ledger that is empty or holds one policy UTxO at the
\* script address of the local network
InitEnforcer ==
    /\ policy = BasePolicy
    /\ request = CodecRequest
    /\ NothingCalled
    /\ enforcer \in {NewEnforcer(BlueprintScript), NewEnforcer(MockScript)}
    /\ initCalls = [i \in 1 .. MaxInitCalls |-> [pc |-> "idle"]]
    /\ calls = [i \in 1 .. MaxCalls |->
                   [request |-> CodecRequest, result |-> NotCalled]]
    /\ ops = [i \in 1 .. MaxOps |-> [pc |-> "idle"]]
    /\ chain \in { << >>,
                   << UtxoOf([address |-> LocalEnforcer.scriptAddress,
                              datum |-> DataTo(buildPolicyDatum(policy)),
                              lovelace |-> MIN_UTXO_LOVELACE], 1) >> }
    /\ compiler = [cachedScript |-> Null, runs |-> 0,
                   calls |-> [i \in 1 .. MaxCompileCalls |-> [pc |-> "idle"]]]
    /\ yaci = [pc |-> "idle"]

NextEnforcer ==
    \/ \E i \in 1 .. MaxInitCalls, config \in Configs :
           InitLucidStart(i, config)
    \/ \E i \in 1 .. MaxInitCalls : InitLucidResolve(i)
    \/ \E i \in 1 .. MaxInitCalls : InitLucidReject(i)
    \/ GetScriptAddress(1)
    \/ CreatePolicyUtxoStart(1)
    \/ CreatePolicyUtxoCompleted(1)
    \/ CreatePolicyUtxoSigned(1)
    \/ CreatePolicyUtxoSubmitted(1)
    \/ FindPolicyUtxosStart(1)
    \/ FindPolicyUtxosResume(1)
    \/ \E policyUtxo \in UtxoRefs : BuildValidationTxStart(1, policyUtxo)
    \/ BuildValidationTxResume(1)
    \/ BuildValidationTxCompleted(1)
    \/ SignAndSubmitValidationTxStart(1)
    \/ SignAndSubmitValidationTxSigned(1)
    \/ SignAndSubmitValidationTxSubmitted(1)

SpecEnforcer == InitEnforcer /\ [][NextEnforcer]_vars

IsSet(field) == field # Null

DerivedFrom(config) ==
    /\ initializeLucid(config).ok
    /\ enforcer.lucid = initializeLucid(config).value
    /\ enforcer.network = config.network
    /\ enforcer.validator = [type |-> "PlutusV3",
                             script |-> enforcer.script.cborHex]
    /\ enforcer.scriptAddress =
           validatorToAddress(config.network, enforcer.validator)

\* C25: when initLucid calls with different configs overlap, then once all
\* of them are complete and one succeeded, the lucid, network and
\* scriptAddress fields all derive from the config of one and the same
\* successful call.
C25_OneConfig ==
    (/\ \A i \in 1 .. MaxInitCalls : initCalls[i].pc # "awaiting"
     /\ \E i \in 1 .. MaxInitCalls : initCalls[i].pc = "done")
    => \E i \in 1 .. MaxInitCalls :
           initCalls[i].pc = "done" /\ DerivedFrom(initCalls[i].config)

\* two calls with configs of different networks overlapped, both succeeded,
\* and the one that began first resolved last
C25_Witness ==
    /\ initCalls[1].pc = "done"
    /\ initCalls[2].pc = "done"
    /\ initCalls[2].overlaps
    /\ initCalls[1].config.network = "Mainnet"
    /\ initCalls[2].config.network = "Custom"
    /\ DerivedFrom(initCalls[1].config)

InitConcurrentValidate ==
    /\ policy \in ConcurrentPolicies
    /\ request = CodecRequest
    /\ outcome = NotCalled
    /\ datum = NotCalled
    /\ parsed = NotCalled
    /\ cbor = NotCalled
    /\ decoded = NotCalled
    /\ linkageData = NotCalled
    /\ linkageOut = NotCalled
    /\ redeemer = NotCalled
    /\ enforcer = NewEnforcer(BlueprintScript)
    /\ initCalls = [i \in 1 .. MaxInitCalls |-> [pc |-> "idle"]]
    /\ calls \in [1 .. MaxCalls ->
                     [request : ConcurrentRequests, result : {NotCalled}]]
    /\ ops = [i \in 1 .. MaxOps |-> [pc |-> "idle"]]
    /\ chain = << >>
    /\ compiler = [cachedScript |-> Null, runs |-> 0,
                   calls |-> [i \in 1 .. MaxCompileCalls |-> [pc |-> "idle"]]]
    /\ yaci = [pc |-> "idle"]

NextConcurrentValidate ==
    \/ \E i \in 1 .. MaxCalls : ValidateCall(i)
    \/ InitLucidStart(1, CHOOSE config \in Configs :
                             config.network = "Custom")
    \/ InitLucidResolve(1)
    \/ InitLucidReject(1)

SpecConcurrentValidate ==
    InitConcurrentValidate /\ [][NextConcurrentValidate]_vars

\* what validate returns for a call made alone
AloneOutcome(p, r) ==
    IF ~IdentityOk(p, r) THEN [valid |-> FALSE, error |-> EphemeralError]
    ELSE IF ~PaymentOk(p, r)
    THEN [valid |-> FALSE,
          error |-> PaymentError(p.minPayment, r.paymentAmount)]
    ELSE IF ~ProofOk(p, r) THEN [valid |-> FALSE, error |-> ProofError]
    ELSE [valid |-> TRUE]

\* C21: however validate calls on the same enforcer and policy interleave,
\* each returns the outcome it would return alone, and no call changes the
\* enforcer, the policy or a request.
C21_ConcurrentValidate ==
    /\ [](\A i \in 1 .. MaxCalls :
             calls[i].result.called =>
                 calls[i].result.result =
                     Returned(AloneOutcome(policy, calls[i].request)))
    /\ [][ calls' # calls =>
              /\ enforcer' = enforcer
              /\ policy' = policy
              /\ \A i \in 1 .. MaxCalls :
                     calls'[i].request = calls[i].request ]_vars

\* two calls with different outcomes have both returned, around an initLucid
\* call that resolved
C21_Witness ==
    /\ calls[1].result.called
    /\ calls[2].result.called
    /\ calls[1].result.result.value.valid
    /\ ~calls[2].result.result.value.valid
    /\ IsSet(enforcer.lucid)

(***************************************************************************)
(* The operations that read the ledger, on an initialised enforcer.         *)
(***************************************************************************)
InitChain ==
    /\ \/ /\ chain \in Ledgers
          /\ policy = [BasePolicy EXCEPT !.minPayment = 2]
          /\ request = [CodecRequest EXCEPT !.paymentAmount = 2]
       \/ /\ chain \in PairLedgers
          /\ policy \in ChainPolicies
          /\ request \in ChainRequests
    /\ outcome = NotCalled
    /\ datum = NotCalled
    /\ parsed = NotCalled
    /\ cbor = NotCalled
    /\ decoded = NotCalled
    /\ linkageData = NotCalled
    /\ linkageOut = NotCalled
    /\ redeemer = NotCalled
    /\ enforcer = LocalEnforcer
    /\ initCalls = [i \in 1 .. MaxInitCalls |->
                       IF i = 1
                       THEN [pc |-> "done", config |-> LocalConfig,
                             overlaps |-> FALSE]
                       ELSE [pc |-> "idle"]]
    /\ calls = [i \in 1 .. MaxCalls |->
                   [request |-> CodecRequest, result |-> NotCalled]]
    /\ ops = [i \in 1 .. MaxOps |-> [pc |-> "idle"]]
    /\ compiler = [cachedScript |-> Null, runs |-> 0,
                   calls |-> [i \in 1 .. MaxCompileCalls |-> [pc |-> "idle"]]]
    /\ yaci = [pc |-> "idle"]

NextChain ==
    \/ FindPolicyUtxosStart(1)
    \/ FindPolicyUtxosResume(1)
    \/ \E policyUtxo \in UtxoRefs : BuildValidationTxStart(1, policyUtxo)
    \/ BuildValidationTxResume(1)
    \/ BuildValidationTxCompleted(1)

SpecChain == InitChain /\ [][NextChain]_vars

\* the datum of the UTxO is present and decodes to a policy
Decodes(utxo) ==
    /\ Truthy(utxo.datum)
    /\ DataFrom(utxo.datum).ok
    /\ parsePolicyDatum(DataFrom(utxo.datum).value).ok

\* the UTxOs at the script address whose datum decodes, in ledger order
DecodableUtxos ==
    SelectSeq(chain, LAMBDA u : u.address = enforcer.scriptAddress
                                 /\ Decodes(u))

\* the i-th call is a findPolicyUtxos() that has ended
Scanned(i) ==
    /\ ops[i].pc = "done"
    /\ ops[i].name = "findPolicyUtxos"

\* C23: findPolicyUtxos returns, in the order of the chain query, exactly
\* one entry for each UTxO at the script address whose datum is present and
\* decodes; UTxOs without datum or with a datum that does not decode are
\* skipped, and only a failure of the chain query itself makes the call fail.
C23_ScanSkipsMalformed ==
    \A i \in 1 .. MaxOps :
        Scanned(i) =>
            \/ ops[i].result = Thrown("utxosAt")
            \/ /\ ops[i].result.ok
               /\ Len(ops[i].result.value) = Len(DecodableUtxos)
               /\ \A k \in 1 .. Len(DecodableUtxos) :
                      ops[i].result.value[k] =
                          [txHash |-> DecodableUtxos[k].txHash,
                           outputIndex |-> DecodableUtxos[k].outputIndex,
                           datum |-> parsePolicyDatum(
                               DataFrom(DecodableUtxos[k].datum).value).value,
                           lovelace |-> DecodableUtxos[k].lovelace]

\* a scan over a decodable UTxO, one with bytes that are no CBOR, and
\* another decodable one returned both policies in order
C23_Witness ==
    /\ Scanned(1)
    /\ ops[1].result.ok
    /\ Len(chain) = 3
    /\ Decodes(chain[1])
    /\ chain[2].datum = <<102, 102>>
    /\ chain[2].address = enforcer.scriptAddress
    /\ Decodes(chain[3])
    /\ chain[1].datum # chain[3].datum
    /\ Len(ops[1].result.value) = 2
    /\ ops[1].result.value[1].txHash = 1
    /\ ops[1].result.value[2].txHash = 3

\* the i-th call is a buildValidationTx that has returned a transaction
BuiltTx(i) ==
    /\ ops[i].pc = "done"
    /\ ops[i].name = "buildValidationTx"
    /\ ops[i].result.ok

\* the outputs of the built transaction to the owner, and the others
OwnerOutputs(i) ==
    SelectSeq(ops[i].result.value.txCbor.outputs,
              LAMBDA o : o.address =
                           credentialToAddress(enforcer.network,
                                               policy.ownerPkh))
OtherOutputs(i) ==
    SelectSeq(ops[i].result.value.txCbor.outputs,
              LAMBDA o : o.address #
                           credentialToAddress(enforcer.network,
                                               policy.ownerPkh))

\* C28: the transaction buildValidationTx returns has a payment output to
\* the owner exactly when minPayment > 0 and paymentAmount > 0, and then of
\* paymentAmount lovelace; it always spends the policy UTxO asked for with
\* the redeemer of the request, and has one output returning the policy
\* datum to the script address with 2,000,000 lovelace.
C28_TxShape ==
    \A i \in 1 .. MaxOps :
        BuiltTx(i) =>
            LET tx == ops[i].result.value.txCbor
            IN  /\ (OwnerOutputs(i) # << >>)
                       <=> (policy.minPayment > 0 /\ request.paymentAmount > 0)
                /\ OwnerOutputs(i) # << >> =>
                       /\ Len(OwnerOutputs(i)) = 1
                       /\ OwnerOutputs(i)[1].lovelace = request.paymentAmount
                /\ Len(tx.inputs) = 1
                /\ tx.inputs[1].txHash = ops[i].policyUtxo.txHash
                /\ tx.inputs[1].outputIndex = ops[i].policyUtxo.outputIndex
                /\ tx.inputs[1].address = enforcer.scriptAddress
                /\ \E k \in 1 .. Len(chain) : chain[k] = tx.inputs[1]
                /\ tx.redeemer = DataTo(buildAccessRedeemer(request))
                /\ OtherOutputs(i) =
                       << [address |-> enforcer.scriptAddress,
                           datum |-> DataTo(buildPolicyDatum(policy)),
                           lovelace |-> 2000000] >>

\* a transaction with a payment output was built
C28_Witness ==
    /\ BuiltTx(1)
    /\ policy.minPayment = 2
    /\ request.paymentAmount = 2
    /\ Len(ops[1].result.value.txCbor.outputs) = 2
    /\ ops[1].policyUtxo.txHash = 2

\* C29: a transaction that buildValidationTx returns for a policy with
\* minPayment > 0 has a payment output to the owner of at least minPayment
\* lovelace.
C29_PaymentSufficient ==
    \A i \in 1 .. MaxOps :
        (BuiltTx(i) /\ policy.minPayment > 0) =>
            /\ OwnerOutputs(i) # << >>
            /\ OwnerOutputs(i)[1].lovelace >= policy.minPayment

(***************************************************************************)
(* Calls of the on-chain operations that overlap, on an initialised         *)
(* enforcer and a ledger with one policy UTxO, while another initLucid call *)
(* may change the network.                                                  *)
(***************************************************************************)
InitOps ==
    /\ policy = [BasePolicy EXCEPT !.minPayment = 2]
    /\ request = [CodecRequest EXCEPT !.paymentAmount = 1]
    /\ chain = << UtxoOf([address |-> LocalEnforcer.scriptAddress,
                          datum |-> DataTo(buildPolicyDatum(policy)),
                          lovelace |-> MIN_UTXO_LOVELACE], 1) >>
    /\ NothingCalled
    /\ enforcer = LocalEnforcer
    /\ initCalls = [i \in 1 .. MaxInitCalls |->
                       IF i = 1
                       THEN [pc |-> "done", config |-> LocalConfig,
                             overlaps |-> FALSE]
                       ELSE [pc |-> "idle"]]
    /\ calls = [i \in 1 .. MaxCalls |->
                   [request |-> CodecRequest, result |-> NotCalled]]
    /\ ops = [i \in 1 .. MaxOps |-> [pc |-> "idle"]]
    /\ compiler = [cachedScript |-> Null, runs |-> 0,
                   calls |-> [i \in 1 .. MaxCompileCalls |-> [pc |-> "idle"]]]
    /\ yaci = [pc |-> "idle"]

NextOps ==
    \/ InitLucidStart(2, MainnetConfig)
    \/ InitLucidResolve(2)
    \/ InitLucidReject(2)
    \/ \E i \in 1 .. MaxOps : GetScriptAddress(i)
    \/ \E i \in 1 .. MaxOps : CreatePolicyUtxoStart(i)
    \/ \E i \in 1 .. MaxOps : CreatePolicyUtxoCompleted(i)
    \/ \E i \in 1 .. MaxOps : CreatePolicyUtxoSigned(i)
    \/ \E i \in 1 .. MaxOps : CreatePolicyUtxoSubmitted(i)
    \/ \E i \in 1 .. MaxOps : FindPolicyUtxosStart(i)
    \/ \E i \in 1 .. MaxOps : FindPolicyUtxosResume(i)
    \/ \E i \in 1 .. MaxOps, policyUtxo \in UtxoRefs :
           BuildValidationTxStart(i, policyUtxo)
    \/ \E i \in 1 .. MaxOps : BuildValidationTxResume(i)
    \/ \E i \in 1 .. MaxOps : BuildValidationTxCompleted(i)
    \/ \E i \in 1 .. MaxOps : SignAndSubmitValidationTxStart(i)
    \/ \E i \in 1 .. MaxOps : SignAndSubmitValidationTxSigned(i)
    \/ \E i \in 1 .. MaxOps : SignAndSubmitValidationTxSubmitted(i)

SpecOps == InitOps /\ [][NextOps]_vars

(***************************************************************************)
(* The compiled-script cache: calls of compileValidator, getCompiledScript  *)
(* and SPALEnforcer.create, overlapping or not.                             *)
(***************************************************************************)
InitCompile ==
    /\ policy = BasePolicy
    /\ request = CodecRequest
    /\ NothingCalled
    /\ HostIdle

NextCompile ==
    \/ \E i \in 1 .. MaxCompileCalls,
          via \in {"compileValidator", "getCompiledScript", "create"} :
           CompileStart(i, via)
    \/ \E i \in 1 .. MaxCompileCalls : CompileResume(i)
    \/ \E i \in 1 .. MaxCompileCalls : CompileSettle(i)

SpecCompile == InitCompile /\ [][NextCompile]_vars

\* the i-th call has returned
CompileReturned(i) ==
    /\ compiler.calls[i].pc = "done"
    /\ compiler.calls[i].result.ok

\* the CompiledScript the i-th call got
ScriptOf(i) ==
    IF compiler.calls[i].via = "create"
    THEN compiler.calls[i].result.value.script
    ELSE compiler.calls[i].result.value

\* C26: over any interleaving of compileValidator, getCompiledScript and
\* SPALEnforcer.create calls, the compiler runs at most once successfully and
\* all successful calls return the same CompiledScript object.
C26_CompiledOnce ==
    /\ compiler.runs <= 1
    /\ \A i, j \in 1 .. MaxCompileCalls :
           (CompileReturned(i) /\ CompileReturned(j)) =>
               ScriptOf(i) = ScriptOf(j)

\* what the compileValidator() of a call that has left its import came to
CompileOutcome(call) ==
    IF call.pc = "settling" THEN call.settled ELSE call.result

\* C27: a failed compilation throws 'Failed to compile contract: ...' and
\* leaves cachedScript as it was, a call that finds the cache empty compiles
\* again, and cachedScript is only ever unset or the complete
\* {cborHex, hash} of a successful compile.
C27_FailureKeepsCache ==
    /\ [](\/ compiler.cachedScript = Null
          \/ /\ compiler.runs >= 1
             /\ compiler.cachedScript.cborHex = HeliosCbor
             /\ compiler.cachedScript.hash = HeliosHash)
    /\ [][ \A i \in 1 .. MaxCompileCalls :
              IF /\ compiler.calls[i].pc = "importing"
                 /\ compiler'.calls[i].pc # "importing"
              THEN ~CompileOutcome(compiler'.calls[i]).ok =>
                       /\ compiler'.cachedScript = compiler.cachedScript
                       /\ \E cause \in {"import", "compile"} :
                              CompileOutcome(compiler'.calls[i]).error =
                                  "Failed to compile contract: " \o cause
              ELSE TRUE ]_vars
    /\ [][ \A i \in 1 .. MaxCompileCalls :
              (/\ compiler.calls[i].pc = "idle"
               /\ compiler'.calls[i].pc # "idle"
               /\ compiler.cachedScript = Null)
              => compiler'.calls[i].pc = "importing" ]_vars

\* a call failed with the cache left unset, and a later call compiled and
\* filled it
C27_Witness ==
    /\ compiler.calls[1].pc = "done"
    /\ ~compiler.calls[1].result.ok
    /\ compiler.calls[2].pc = "done"
    /\ compiler.calls[2].result.ok
    /\ ~compiler.calls[2].hit
    /\ compiler.runs = 1
    /\ compiler.cachedScript = ScriptOf(2)

(***************************************************************************)
(* The deploy script waiting for the devnet.  Every fetch, every read of a  *)
(* body and every sleep settles, so a step that is enabled is taken.        *)
(***************************************************************************)
InitYaci == InitEnforcer

NextYaci ==
    \/ \E maxAttempts \in 0 .. MaxAttempts : WaitForYaci(maxAttempts)
    \/ YaciFetchSettles
    \/ YaciBodySettles
    \/ YaciWake

SpecYaci == InitYaci /\ [][NextYaci]_vars /\ WF_vars(NextYaci)

\* probes before the last that answered ok: none
NoEarlierOk ==
    \A k \in 1 .. Len(yaci.answers) - 1 : yaci.answers[k] # "ok"

YaciBounded ==
    yaci.pc # "idle" =>
        /\ yaci.probes <= yaci.maxAttempts
        /\ yaci.sleeps <= yaci.probes
        /\ yaci.sleeps < yaci.maxAttempts \/ yaci.maxAttempts = 0
        /\ NoEarlierOk
        /\ yaci.pc \in {"fetching", "reading"} =>
               /\ Len(yaci.answers) = yaci.probes - 1
               /\ yaci.sleeps = yaci.probes - 1
        /\ yaci.pc = "sleeping" =>
               /\ Len(yaci.answers) = yaci.probes
               /\ yaci.sleeps = yaci.probes
               /\ yaci.answers[yaci.probes] # "ok"
        /\ (yaci.pc = "done" /\ yaci.result.ok) =>
               /\ Len(yaci.answers) = yaci.probes
               /\ yaci.answers[yaci.probes] = "ok"
               /\ yaci.sleeps = yaci.probes - 1
        /\ (yaci.pc = "done" /\ ~yaci.result.ok) =>
               /\ yaci.result = Thrown(YaciError)
               /\ yaci.probes = yaci.maxAttempts
               /\ Len(yaci.answers) = yaci.maxAttempts
               /\ \A k \in 1 .. yaci.maxAttempts : yaci.answers[k] # "ok"
               /\ yaci.maxAttempts > 0 => yaci.sleeps = yaci.maxAttempts - 1

\* C30: waitForYaci(maxAttempts) terminates; it makes at most maxAttempts
\* probes, returns at the first probe that answers ok, throws 'Yaci devnet
\* not available' after exactly maxAttempts probes without an ok answer, and
\* sleeps between probes but not after the last (at most maxAttempts - 1
\* sleeps).
C30_WaitTerminates ==
    /\ []YaciBounded
    /\ <>(yaci.pc = "done")

\* three probes (a refused connection, a response that is not ok, an ok
\* response with an unreadable body) and two sleeps, then the error
C30_Witness ==
    /\ yaci.pc = "done"
    /\ yaci.result = Thrown(YaciError)
    /\ yaci.maxAttempts = 3
    /\ yaci.answers = <<"error", "notOk", "badBody">>
    /\ yaci.probes = 3
    /\ yaci.sleeps = 2

=============================================================================
